---------------------------- MODULE Spec2Model ----------------------------
(***************************************************************************)
(* Model of the tensor / streaming-state engine of moshi-typescript:       *)
(* the legacy transformer module (TensorUtils, TransformerState,           *)
(* PositionalEmbedding, Linear, Identity, StreamingTransformer,            *)
(* ProjectedTransformer) and the web / server streaming states.            *)
(*                                                                         *)
(* Conventions.                                                            *)
(*  - JavaScript arrays are 0-based, TLA+ sequences 1-based: At(s, i) is   *)
(*    the JavaScript s[i].                                                 *)
(*  - A tensor is a record [data, shape, device, dtype, buf, arr, frac];   *)
(*    buf is the identity of the typed array held in data (two tensors     *)
(*    alias the same storage iff their buf is equal), arr its class, and   *)
(*    frac the set of axes (1-based) whose shape entry is not an integer:  *)
(*    shape then holds the entry rounded down.                             *)
(*  - Tensor elements are symbolic values (records [k, ints, subs]): an    *)
(*    integer, a fraction n + 1/10 as a double or rounded to float32, a    *)
(*    sin/cos of a position, or a sum / scalar multiple of such. Storing   *)
(*    into a typed array converts integers and fractions to its element    *)
(*    type; the rounding of the other symbolic values is not modelled.     *)
(*  - Offsets are kept as integers; the guards cap them by MaxOffset, far  *)
(*    below 2^24 where a Float32Array stops holding integers exactly.      *)
(*  - "undefined" is the JavaScript undefined for string-valued options    *)
(*    and metadata tags; numeric options are records [def, v].             *)
(***************************************************************************)
EXTENDS Integers, Sequences, FiniteSets, TLC

VARIABLES
    shell,      \* the StreamingTransformer object, or NoShell
    states,     \* streaming-state objects by id (NoState where none exists)
    last,       \* the last operation performed: its arguments and its result
    fed,        \* per state id: time steps fed since creation (ghost)
    proj,       \* the ProjectedTransformer object, or NoProj
    xf,         \* the WebTransformer / NodeTransformer object, or NoXf
    tens,       \* the tensors the caller holds, by slot
    srv         \* the MoshiServer: clients, transformers, handlers, sockets

vars == <<shell, states, last, fed, proj, xf, tens, srv>>

---------------------------------------------------------------------------
(* Bounds of the model. *)

MaxOffset == 3
MaxBatch == 2
MaxLayers == 1

(* Program constants. *)

DefaultMaxPeriod == 10000
DefaultPositionalScale == 1
DefaultDimFeedforward == 2048

---------------------------------------------------------------------------
(* Helpers for JavaScript arrays. *)

At(s, i) == s[i + 1]

Min(a, b) == IF a < b THEN a ELSE b

RECURSIVE Prod(_)
Prod(s) == IF s = <<>> THEN 1 ELSE Head(s) * Prod(Tail(s))

---------------------------------------------------------------------------
(* Optional arguments and the "||" default idiom. *)

\* an optional numeric option: omitted, or the number v
Omitted == [def |-> FALSE, v |-> 0]

Given(v) == [def |-> TRUE, v |-> v]

\* JavaScript "opt || dflt" on a number: undefined and 0 are both falsy
OrDefault(opt, dflt) == IF opt.def /\ opt.v # 0 THEN opt.v ELSE dflt

\* JavaScript "opt || dflt" on a string: undefined and "" are both falsy
OrDefaultStr(opt, dflt) == IF opt \in {"undefined", ""} THEN dflt ELSE opt

---------------------------------------------------------------------------
(* Symbolic element values. *)

Num(n) == [k |-> "num", ints |-> <<n>>, subs |-> <<>>]

IsNum(v) == v.k = "num"

NumOf(v) == v.ints[1]

\* Math.sin(pos / Math.pow(maxPeriod, d / dim)): exactly 0 at position 0.
SinVal(pos, d, dim, maxPeriod) ==
    IF pos = 0 THEN Num(0)
    ELSE [k |-> "sin", ints |-> <<pos, d, dim, maxPeriod>>, subs |-> <<>>]

\* Math.cos(pos / Math.pow(maxPeriod, d / dim)): exactly 1 at position 0.
CosVal(pos, d, dim, maxPeriod) ==
    IF pos = 0 THEN Num(1)
    ELSE [k |-> "cos", ints |-> <<pos, d, dim, maxPeriod>>, subs |-> <<>>]

\* the double n + 1/10, which no float32 and no int32 holds exactly
Frac(n) == [k |-> "frac", ints |-> <<n>>, subs |-> <<>>]

\* Math.fround(n + 1/10): the float32 nearest to n + 1/10
Frac32(n) == [k |-> "frac32", ints |-> <<n>>, subs |-> <<>>]

\* the result of an arithmetic operation on undefined
NaN == [k |-> "NaN", ints |-> <<>>, subs |-> <<>>]

\* a * scalar
MulVal(v, s) ==
    IF IsNum(v) THEN Num(NumOf(v) * s)
    ELSE IF v.k = "NaN" THEN v
    ELSE IF s = 1 THEN v
    ELSE IF s = 0 THEN Num(0)
    ELSE [k |-> "mul", ints |-> <<s>>, subs |-> <<v>>]

\* a + b
AddVal(a, b) ==
    IF IsNum(a) /\ IsNum(b) THEN Num(NumOf(a) + NumOf(b))
    ELSE IF IsNum(b) /\ NumOf(b) = 0 THEN a
    ELSE IF IsNum(a) /\ NumOf(a) = 0 THEN b
    ELSE [k |-> "add", ints |-> <<>>, subs |-> <<a, b>>]

---------------------------------------------------------------------------
(* Typed arrays: what a store into an element of each class keeps. *)

ArrayClasses == {"Float32Array", "Float64Array", "Int32Array"}

\* the integer a Float32Array keeps for the integer n (24-bit mantissa,
\* round to nearest, ties to even), for |n| < 2^25
RoundF32(n) ==
    LET a == IF n < 0 THEN -n ELSE n
        r == IF a <= 16777216 \/ a % 2 = 0 THEN a
             ELSE IF (a + 1) % 4 = 0 THEN a + 1 ELSE a - 1
    IN IF n < 0 THEN -r ELSE r

\* the integer an Int32Array keeps for the integer n: n itself for
\* -2^31 <= n < 2^31, the only integers the model ever holds
WrapI32(n) == IF n >= -2147483647 - 1 /\ n <= 2147483647 THEN n ELSE 0

\* the value element assignment data[i] = v leaves in an array of class arr
Store(arr, v) ==
    CASE arr = "Float32Array" ->
            IF IsNum(v) THEN Num(RoundF32(NumOf(v)))
            ELSE IF v.k = "frac" THEN Frac32(v.ints[1])
            ELSE v
      [] arr = "Int32Array" ->
            IF IsNum(v) THEN Num(WrapI32(NumOf(v)))
            ELSE IF v.k \in {"frac", "frac32"} THEN Num(v.ints[1])
            ELSE IF v.k = "NaN" THEN Num(0)
            ELSE v
      [] OTHER -> v

\* the typed array class the web and server zeros / arange choose for dtype
ArrayOf(dtype) ==
    CASE dtype = "float64" -> "Float64Array"
      [] dtype = "int32" -> "Int32Array"
      [] OTHER -> "Float32Array"

---------------------------------------------------------------------------
(* Tensors and TensorUtils of the legacy transformer module. *)

\* a tensor of the legacy module; its data is a Float32Array
Tensor(data, shape, device, dtype, buf) ==
    [data |-> data, shape |-> shape, device |-> device, dtype |-> dtype,
     buf |-> buf, arr |-> "Float32Array", frac |-> {}]

\* a tensor of the web or server module, over a typed array of class arr
TypedTensor(data, shape, device, dtype, buf, arr) ==
    [data |-> data, shape |-> shape, device |-> device, dtype |-> dtype,
     buf |-> buf, arr |-> arr, frac |-> {}]

\* device || "cpu"
DeviceOrCpu(device) == OrDefaultStr(device, "cpu")

\* new Float32Array(size): all zero
ZeroData(size) == [i \in 1..size |-> Num(0)]

\* zeros(shape, ...) of the three modules throws (RangeError of the typed
\* array constructor) exactly when the product of the dimensions is negative
zeros_throws(shape) == Prod(shape) < 0

\* TensorUtils.zeros(shape, device) when it does not throw
zeros(shape, device, buf) ==
    Tensor(ZeroData(Prod(shape)), shape, DeviceOrCpu(device), "float32", buf)

\* TensorUtils.arange(end, device)
arange(end, device, buf) ==
    Tensor([i \in 1..end |-> Num(i - 1)], <<end>>, DeviceOrCpu(device),
           "float32", buf)

\* TensorUtils.scale(tensor, scalar)
scale(tensor, scalar, buf) ==
    Tensor([i \in 1..Len(tensor.data) |-> MulVal(tensor.data[i], scalar)],
           tensor.shape, tensor.device, tensor.dtype, buf)

\* TensorUtils.add(a, b) throws unless the two buffers have the same length
add_throws(a, b) == Len(a.data) # Len(b.data)

\* mutant: the sum takes its device tag from the second operand
add_deviceOfB(a, b, buf) ==
    Tensor([i \in 1..Len(a.data) |-> AddVal(a.data[i], b.data[i])],
           a.shape, b.device, a.dtype, buf)

\* TensorUtils.add(a, b) when it does not throw
add(a, b, buf) ==
    Tensor([i \in 1..Len(a.data) |-> AddVal(a.data[i], b.data[i])],
           a.shape, a.device, a.dtype, buf)

\* Identity.forward(x): a copy of x
Identity_forward(x, buf) ==
    Tensor(x.data, x.shape, x.device, x.dtype, buf)

\* PositionalEmbedding.createSinEmbedding(positions, dim, maxPeriod)
createSinEmbedding(positions, dim, maxPeriod, buf) ==
    LET batchSize == At(positions.shape, 0)
        seqLen == At(positions.shape, 1)
        embeddings == zeros(<<batchSize, seqLen, dim>>, "undefined", buf)
        elem(j) ==
            LET b == j \div (seqLen * dim)
                t == (j \div dim) % seqLen
                c == j % dim
                pos == NumOf(At(positions.data, b * seqLen + t))
            IN IF c % 2 = 0 THEN SinVal(pos, c, dim, maxPeriod)
               ELSE CosVal(pos, c - 1, dim, maxPeriod)
    IN [embeddings EXCEPT
          !.data = [i \in 1..Len(embeddings.data) |-> elem(i - 1)]]


\* TensorUtils.transpose(tensor, dim0, dim1) throws unless the tensor has
\* rank 3 and the axis pair is (1, 2) or (2, 1)
transpose_throws(tensor, dim0, dim1) ==
    \/ Len(tensor.shape) # 3
    \/ ~((dim0 = 1 /\ dim1 = 2) \/ (dim0 = 2 /\ dim1 = 1))

\* mutant: the data is copied unpermuted and the shape is kept
transpose_keepShape(tensor, dim0, dim1, buf) ==
    Tensor(tensor.data, tensor.shape, tensor.device, tensor.dtype, buf)

\* mutant: the shape is swapped but the data is copied unpermuted
transpose_sameIndex(tensor, dim0, dim1, buf) ==
    Tensor(tensor.data,
           <<At(tensor.shape, 0), At(tensor.shape, 2), At(tensor.shape, 1)>>,
           tensor.device, tensor.dtype, buf)

\* TensorUtils.transpose(tensor, dim0, dim1) when it does not throw; for
\* (1, 2) element [b, t, c] goes to [b, c, t] of a new [B, C, T] buffer, for
\* (2, 1) the copy runs the other way and the shape is kept
transpose(tensor, dim0, dim1, buf) ==
    LET B == At(tensor.shape, 0)
        T == At(tensor.shape, 1)
        C == At(tensor.shape, 2)
        \* the source index written to destination index j
        fromDst(j) ==
            LET b == j \div (C * T)
                c == (j \div T) % C
                t == j % T
            IN b * T * C + t * C + c
        \* the destination-pattern index read for source-pattern index j
        fromSrc(j) ==
            LET b == j \div (T * C)
                t == (j \div C) % T
                c == j % C
            IN b * C * T + c * T + t
    IN IF dim0 = 1 /\ dim1 = 2
       THEN Tensor([i \in 1..Len(tensor.data) |->
                        At(tensor.data, fromDst(i - 1))],
                   <<B, C, T>>, tensor.device, tensor.dtype, buf)
       ELSE Tensor([i \in 1..Len(tensor.data) |->
                        At(tensor.data, fromSrc(i - 1))],
                   <<B, T, C>>, tensor.device, tensor.dtype, buf)

\* the value JavaScript reads at data[i]: undefined (NaN in arithmetic) when
\* i is outside the typed array
Read(data, i) == IF i >= 0 /\ i < Len(data) THEN At(data, i) ELSE NaN

\* a * w for a weight w of a Linear layer
WeighVal(v, w) == IF v.k = "NaN" THEN NaN ELSE MulVal(v, w)

\* sum + v as Linear.forward accumulates it
AccVal(sum, v) ==
    IF sum.k = "NaN" \/ v.k = "NaN" THEN NaN ELSE AddVal(sum, v)

\* no layer object
NoLayer ==
    [class |-> "none", inFeatures |-> 0, outFeatures |-> 0, weight |-> <<>>,
     bias |-> FALSE]

\* new Identity()
Identity == [NoLayer EXCEPT !.class = "Identity"]

\* new Linear(inFeatures, outFeatures, bias): weight is the outcome of the
\* inFeatures * outFeatures calls of Math.random(), here a sequence of
\* integers; the bias, when present, is all zero
Linear(inFeatures, outFeatures, bias, weight) ==
    [class |-> "Linear", inFeatures |-> inFeatures,
     outFeatures |-> outFeatures, weight |-> weight, bias |-> bias]

\* all but the last entry of a shape
Leading(shape) == SubSeq(shape, 1, Len(shape) - 1)

\* mutant: the result keeps the width of the input
Linear_forward_keepWidth(lin, x, buf) ==
    zeros(x.shape, "undefined", buf)

\* Linear.forward(x)
Linear_forward(lin, x, buf) ==
    LET batchSize == Prod(Leading(x.shape))
        result == zeros(Leading(x.shape) \o <<lin.outFeatures>>, "undefined",
                        buf)
        sumTo[b \in 0..(batchSize - 1), out \in 0..(lin.outFeatures - 1),
              n \in 0..lin.inFeatures] ==
            IF n = 0 THEN Num(0)
            ELSE AccVal(sumTo[b, out, n - 1],
                        WeighVal(Read(x.data, b * lin.inFeatures + n - 1),
                                 At(lin.weight, out * lin.inFeatures + n - 1)))
        elem(j) ==
            LET b == j \div lin.outFeatures
                out == j % lin.outFeatures
            IN IF lin.bias THEN AccVal(sumTo[b, out, lin.inFeatures], Num(0))
               ELSE sumTo[b, out, lin.inFeatures]
    IN [result EXCEPT
          !.data = [i \in 1..Len(result.data) |-> elem(i - 1)]]

\* layer.forward(x) for a Linear or an Identity
Layer_forward(layer, x, buf) ==
    IF layer.class = "Linear" THEN Linear_forward(layer, x, buf)
    ELSE Identity_forward(x, buf)

---------------------------------------------------------------------------
(* TensorUtils.view of the legacy module, and the tensor utilities of the  *)
(* web module (TensorUtils) and of the server module (ServerTensorUtils).  *)

\* the positions of the entries -1 in a shape argument
InferDims(newShape) == {i \in 1..Len(newShape) : newShape[i] = -1}

\* the product of the entries other than -1
KnownSize(newShape) ==
    Prod(SelectSeq(newShape, LAMBDA d : d # -1))

Abs(n) == IF n < 0 THEN -n ELSE n

RECURSIVE Gcd(_, _)
Gcd(a, b) == IF b = 0 THEN a ELSE Gcd(b, a % b)

RECURSIVE IsPow2(_)
IsPow2(n) == n = 1 \/ (n > 1 /\ n % 2 = 0 /\ IsPow2(n \div 2))

\* whether actualSize / knownSize is a double without rounding error, so
\* that multiplying the dimensions back gives actualSize exactly
ExactQuotient(actualSize, knownSize) ==
    IsPow2(Abs(knownSize) \div Gcd(actualSize, Abs(knownSize)))

\* actualSize / knownSize rounded down, for knownSize # 0
Quotient(actualSize, knownSize) ==
    IF knownSize > 0 THEN actualSize \div knownSize
    ELSE -((actualSize + Abs(knownSize) - 1) \div Abs(knownSize))

\* TensorUtils.view(tensor, ...newShape) throws: two entries -1; or the
\* product of the resolved shape differs from the buffer length, which for
\* an inferred entry happens when the other entries multiply to 0 (the
\* entry is Infinity or NaN) or when the division and the product back do
\* not round to the buffer length (roundsBack false)
view_throws(tensor, newShape, roundsBack) ==
    LET actualSize == Len(tensor.data)
        knownSize == KnownSize(newShape)
    IN \/ Cardinality(InferDims(newShape)) > 1
       \/ /\ InferDims(newShape) = {}
          /\ Prod(newShape) # actualSize
       \/ /\ Cardinality(InferDims(newShape)) = 1
          /\ \/ knownSize = 0
             \/ /\ actualSize % Abs(knownSize) # 0
                /\ ~ExactQuotient(actualSize, knownSize)
                /\ ~roundsBack

\* mutant: the view is given a copy of the data
view_copies(tensor, newShape, buf) ==
    [tensor EXCEPT !.shape = newShape, !.buf = buf]

\* TensorUtils.view(tensor, ...newShape) when it does not throw: the same
\* typed array under the resolved shape
view(tensor, newShape, buf) ==
    LET actualSize == Len(tensor.data)
        knownSize == KnownSize(newShape)
        whole == knownSize # 0 /\ actualSize % Abs(knownSize) = 0
    IN [tensor EXCEPT
          !.shape = [i \in 1..Len(newShape) |->
                        IF newShape[i] = -1
                        THEN Quotient(actualSize, knownSize)
                        ELSE newShape[i]],
          !.frac = IF whole THEN {} ELSE InferDims(newShape)]

\* TensorUtils.reshape / ServerTensorUtils.reshape throw unless the product
\* of newShape is the buffer length; -1 is an entry like any other
reshape_throws(tensor, newShape) == Prod(newShape) # Len(tensor.data)

\* TensorUtils.reshape(tensor, newShape) of the web module
WebTensorUtils_reshape(tensor, newShape, buf) ==
    [tensor EXCEPT !.shape = newShape]

\* ServerTensorUtils.reshape(tensor, newShape)
ServerTensorUtils_reshape(tensor, newShape, buf) ==
    [tensor EXCEPT !.shape = newShape]

\* TensorUtils.zeros(shape, dtype = "float32") of the web module
WebTensorUtils_zeros(shape, dtype, buf) ==
    LET dt == IF dtype = "undefined" THEN "float32" ELSE dtype
    IN TypedTensor([i \in 1..Prod(shape) |-> Num(0)], shape, "cpu", dt, buf,
                   ArrayOf(dt))

\* TensorUtils.add(a, b) of the web module throws unless the shapes are
\* equal entry by entry
WebTensorUtils_add_throws(a, b) ==
    \/ Len(a.shape) # Len(b.shape)
    \/ \E i \in 1..Len(a.shape) : a.shape[i] # b.shape[i]

\* TensorUtils.add(a, b) of the web module when it does not throw
WebTensorUtils_add(a, b, buf) ==
    TypedTensor([i \in 1..Len(a.data) |->
                    Store("Float32Array", AddVal(a.data[i], Read(b.data, i - 1)))],
                a.shape, a.device, "float32", buf, "Float32Array")

\* ServerTensorUtils.add(a, b) throws unless the buffers have equal length
ServerTensorUtils_add_throws(a, b) == Len(a.data) # Len(b.data)

\* ServerTensorUtils.add(a, b) when it does not throw
ServerTensorUtils_add(a, b, buf) ==
    TypedTensor([i \in 1..Len(a.data) |->
                    Store("Float32Array", AddVal(a.data[i], b.data[i]))],
                a.shape, a.device, a.dtype, buf, "Float32Array")

\* TensorUtils.scale(tensor, scalar) of the web module
WebTensorUtils_scale(tensor, scalar, buf) ==
    TypedTensor([i \in 1..Len(tensor.data) |->
                    Store("Float32Array", MulVal(tensor.data[i], scalar))],
                tensor.shape, tensor.device, "float32", buf, "Float32Array")

\* ServerTensorUtils.scale(tensor, scalar)
ServerTensorUtils_scale(tensor, scalar, buf) ==
    TypedTensor([i \in 1..Len(tensor.data) |->
                    Store("Float32Array", MulVal(tensor.data[i], scalar))],
                tensor.shape, tensor.device, tensor.dtype, buf,
                "Float32Array")

\* ceil(a / b) for b > 0
CeilDiv(a, b) == -((-a) \div b)

\* the size arange computes: Math.ceil((end - start) / step); -1 stands for
\* any negative size or Infinity, and size NaN (0 / 0) is flagged apart
ArangeSize(start, end, step) ==
    IF step > 0 THEN CeilDiv(end - start, step)
    ELSE IF step < 0 THEN CeilDiv(start - end, -step)
    ELSE IF end = start THEN 0 ELSE -1

\* arange of the web and server modules throws a RangeError when the typed
\* array cannot be allocated: negative or infinite size
arange_throws(start, end, step) == ArangeSize(start, end, step) < 0

\* TensorUtils.arange(start, end, step, dtype) of the web module when it
\* does not throw; with step 0 and end = start the size is NaN, the array
\* is empty and the shape is [NaN]
WebTensorUtils_arange(start, end, step, dtype, buf) ==
    LET size == ArangeSize(start, end, step)
        dt == IF dtype = "undefined" THEN "float32" ELSE dtype
        t == TypedTensor([i \in 1..size |->
                             Store(ArrayOf(dt), Num(start + (i - 1) * step))],
                         <<size>>, "cpu", dt, buf, ArrayOf(dt))
    IN [t EXCEPT !.frac = IF step = 0 THEN {1} ELSE {}]

\* ServerTensorUtils.arange(start, stop, step, dtype, device) when it does
\* not throw
ServerTensorUtils_arange(start, stop, step, dtype, device, buf) ==
    LET length == ArangeSize(start, stop, step)
        dt == IF dtype = "undefined" THEN "float32" ELSE dtype
        t == TypedTensor([i \in 1..length |->
                             Store(ArrayOf(dt), Num(start + (i - 1) * step))],
                         <<length>>,
                         IF device = "undefined" THEN "cpu" ELSE device,
                         dt, buf, ArrayOf(dt))
    IN [t EXCEPT !.frac = IF step = 0 THEN {1} ELSE {}]

---------------------------------------------------------------------------
(* Streaming states: TransformerState (legacy), WebStreamingState (client) *)
(* and NodeStreamingState (server).                                        *)

\* an optional boolean[] argument or field: absent, or the array m
NoMask == [present |-> FALSE, m |-> <<>>]

Mask(m) == [present |-> TRUE, m |-> m]

\* an optional Tensor argument
NoTensor == [def |-> FALSE, t |-> Tensor(<<>>, <<>>, "undefined", "undefined", 0)]

\* no state object
NoState ==
    [impl |-> "none", batchSize |-> 0, device |-> "undefined",
     offsets |-> NoTensor.t, execMask |-> NoMask]

\* new TransformerState(batchSize, device = "cpu", offsets?)
TransformerState(batchSize, device, offsets, buf) ==
    LET dev == IF device = "undefined" THEN "cpu" ELSE device
    IN [impl |-> "TransformerState", batchSize |-> batchSize, device |-> dev,
        offsets |-> IF offsets.def THEN offsets.t
                    ELSE zeros(<<batchSize>>, dev, buf),
        execMask |-> NoMask]

\* new WebStreamingState(batchSize, device = "cpu"); offsets is the getter's
\* tensor over the private _offsets array
WebStreamingState(batchSize, device, buf) ==
    LET dev == IF device = "undefined" THEN "cpu" ELSE device
    IN [impl |-> "WebStreamingState", batchSize |-> batchSize, device |-> dev,
        offsets |-> Tensor(ZeroData(batchSize), <<batchSize>>, dev,
                           "float32", buf),
        execMask |-> NoMask]

\* ServerTensorUtils.zeros(shape, dtype = 'float32', device = 'cpu')
ServerTensorUtils_zeros(shape, dtype, device, buf) ==
    LET dt == IF dtype = "undefined" THEN "float32" ELSE dtype
    IN TypedTensor(ZeroData(Prod(shape)), shape,
                   IF device = "undefined" THEN "cpu" ELSE device,
                   dt, buf, ArrayOf(dt))

\* mutant: the offsets array is allocated one element short
NodeStreamingState_short(batchSize, device, buf) ==
    LET dev == IF device = "undefined" THEN "cpu" ELSE device
    IN [impl |-> "NodeStreamingState", batchSize |-> batchSize, device |-> dev,
        offsets |-> ServerTensorUtils_zeros(<<batchSize - 1>>, "int32", dev,
                                            buf),
        execMask |-> NoMask]

\* new NodeStreamingState(batchSize, device = 'cpu')
NodeStreamingState(batchSize, device, buf) ==
    LET dev == IF device = "undefined" THEN "cpu" ELSE device
    IN [impl |-> "NodeStreamingState", batchSize |-> batchSize, device |-> dev,
        offsets |-> ServerTensorUtils_zeros(<<batchSize>>, "int32", dev, buf),
        execMask |-> NoMask]

\* mutant: the values of the mask are not looked at
ZeroWhere_all(s, m, n) ==
    [s EXCEPT !.offsets.data =
        [i \in 1..Len(s.offsets.data) |->
            IF i <= n /\ i <= Len(m) THEN Num(0) ELSE s.offsets.data[i]]]

\* the offsets of s with the entries 0 .. n-1 selected by mask m set to zero
ZeroWhere(s, m, n) ==
    [s EXCEPT !.offsets.data =
        [i \in 1..Len(s.offsets.data) |->
            IF i <= n /\ i <= Len(m) /\ m[i] THEN Num(0)
            ELSE s.offsets.data[i]]]

\* the result of a reset call: whether it threw, and the state afterwards
ResetResult(threw, s) == [threw |-> threw, state |-> s]

\* TransformerState.reset(resetMask): reads resetMask.length first, so an
\* omitted mask is a TypeError and nothing is changed
TransformerState_reset(s, resetMask) ==
    IF ~resetMask.present THEN ResetResult(TRUE, s)
    ELSE ResetResult(FALSE,
            ZeroWhere(s, resetMask.m,
                      Min(Len(resetMask.m), Len(s.offsets.data))))

\* WebStreamingState.reset(mask?)
WebStreamingState_reset(s, mask) ==
    IF ~mask.present
    THEN ResetResult(FALSE,
            [s EXCEPT !.offsets.data = ZeroData(Len(s.offsets.data))])
    ELSE ResetResult(FALSE,
            ZeroWhere(s, mask.m, Min(Len(mask.m), s.batchSize)))

\* NodeStreamingState.reset(resetMask?)
NodeStreamingState_reset(s, resetMask) ==
    IF ~resetMask.present
    THEN ResetResult(FALSE,
            [s EXCEPT !.offsets.data = ZeroData(Len(s.offsets.data))])
    ELSE ResetResult(FALSE,
            ZeroWhere(s, resetMask.m,
                      Min(Len(resetMask.m), Len(s.offsets.data))))

\* state.reset(mask), dispatched on the class of the object
reset(s, mask) ==
    CASE s.impl = "TransformerState" -> TransformerState_reset(s, mask)
      [] s.impl = "WebStreamingState" -> WebStreamingState_reset(s, mask)
      [] OTHER -> NodeStreamingState_reset(s, mask)

\* WebTransformer.createStreamingState(batchSize), device the config's
WebTransformer_createStreamingState(device, batchSize, buf) ==
    WebStreamingState(batchSize, OrDefaultStr(device, "cpu"), buf)

\* NodeTransformer.createStreamingState(batchSize), device the config's
NodeTransformer_createStreamingState(device, batchSize, buf) ==
    NodeStreamingState(batchSize, device, buf)

---------------------------------------------------------------------------
(* StreamingTransformer. *)

validEmbeddings == {"sin", "rope", "sin_rope", "none"}

NoShell ==
    [exists |-> FALSE, dModel |-> 0, numHeads |-> 0, numLayers |-> Omitted,
     dimFeedforward |-> 0, causal |-> FALSE, context |-> Omitted,
     positionalEmbedding |-> "undefined", maxPeriod |-> 0,
     positionalScale |-> 0, checkpointing |-> FALSE, layers |-> 0,
     streamingState |-> 0,
     given |-> [maxPeriod |-> Omitted, positionalScale |-> Omitted]]

\* whether the constructor throws "Invalid positional embedding"
StreamingTransformer_throws(options) ==
    OrDefaultStr(options.positionalEmbedding, "sin") \notin validEmbeddings

\* new StreamingTransformer(options), when it does not throw; layers is the
\* number of Identity layers pushed, streamingState the id of the attached
\* state (0: undefined); given is history, not a field of the object: the
\* maxPeriod and positionalScale options as the caller passed them
StreamingTransformer(options) ==
    [exists |-> TRUE,
     dModel |-> options.dModel,
     numHeads |-> options.numHeads,
     numLayers |-> options.numLayers,
     dimFeedforward |-> OrDefault(options.dimFeedforward, DefaultDimFeedforward),
     causal |-> options.causal,
     context |-> options.context,
     positionalEmbedding |-> OrDefaultStr(options.positionalEmbedding, "sin"),
     maxPeriod |-> OrDefault(options.maxPeriod, DefaultMaxPeriod),
     positionalScale |-> OrDefault(options.positionalScale,
                                   DefaultPositionalScale),
     checkpointing |-> options.checkpointing,
     layers |-> IF options.numLayers.def /\ options.numLayers.v > 0
                THEN options.numLayers.v ELSE 0,
     streamingState |-> 0,
     given |-> [maxPeriod |-> options.maxPeriod,
                positionalScale |-> options.positionalScale]]

\* StreamingTransformer.initStreamingState(batchSize)
initStreamingState(batchSize, buf) ==
    TransformerState(batchSize, "cpu", NoTensor, buf)

\* "for (const layer of this.layers) x = layer.forward(x)": n Identity
\* layers, each result in a new buffer buf, buf + 1, ...
RECURSIVE ApplyLayers(_, _, _)
ApplyLayers(x, n, buf) ==
    IF n = 0 THEN x ELSE ApplyLayers(Identity_forward(x, buf), n - 1, buf + 1)

\* mutant: the offsets are not added to the local time index
BaseOffset_zero(offsets, b) == 0

\* mutant: rows beyond the state's batch size start from 0
BaseOffset_unclamped(offsets, b) ==
    IF b < Len(offsets.data) THEN NumOf(At(offsets.data, b)) ELSE 0

\* the base offset forward uses for batch row b
BaseOffset(offsets, b) ==
    NumOf(At(offsets.data, Min(b, Len(offsets.data) - 1)))

\* forward's expandedPositions tensor: [b, t] -> t + offset of row b
ExpandedPositions(offsets, B, T, device, buf) ==
    [zeros(<<B, T>>, device, buf) EXCEPT
        !.data = [j \in 1..(B * T) |->
                    Num(((j - 1) % T) + BaseOffset(offsets, (j - 1) \div T))]]

\* mutant: every advanced offset is incremented by one, not by T
AdvanceOffsets_byOne(st, T) ==
    [st EXCEPT !.offsets.data =
        [i \in 1..Len(st.offsets.data) |->
            IF ~st.execMask.present
               \/ (i <= Len(st.execMask.m) /\ st.execMask.m[i])
            THEN AddVal(st.offsets.data[i], Num(1))
            ELSE st.offsets.data[i]]]

\* mutant: the execution mask is ignored
AdvanceOffsets_noMask(st, T) ==
    [st EXCEPT !.offsets.data =
        [i \in 1..Len(st.offsets.data) |->
            AddVal(st.offsets.data[i], Num(T))]]

\* mutant: the offsets move backwards
AdvanceOffsets_minus(st, T) ==
    [st EXCEPT !.offsets.data =
        [i \in 1..Len(st.offsets.data) |->
            IF ~st.execMask.present
               \/ (i <= Len(st.execMask.m) /\ st.execMask.m[i])
            THEN AddVal(st.offsets.data[i], Num(0 - T))
            ELSE st.offsets.data[i]]]

\* mutant: the update also drops the execution mask of the state
AdvanceOffsets_clearMask(st, T) ==
    [st EXCEPT !.execMask = NoMask,
               !.offsets.data =
                  [i \in 1..Len(st.offsets.data) |->
                      IF ~st.execMask.present
                         \/ (i <= Len(st.execMask.m) /\ st.execMask.m[i])
                      THEN AddVal(st.offsets.data[i], Num(T))
                      ELSE st.offsets.data[i]]]

\* forward's update of the attached state: offsets.data[i] += T for every
\* i with "!state.execMask || state.execMask[i]"
AdvanceOffsets(st, T) ==
    [st EXCEPT !.offsets.data =
        [i \in 1..Len(st.offsets.data) |->
            IF ~st.execMask.present
               \/ (i <= Len(st.execMask.m) /\ st.execMask.m[i])
            THEN AddVal(st.offsets.data[i], Num(T))
            ELSE st.offsets.data[i]]]

\* mutant: the offsets are advanced before the positional embedding is
\* added, so a failing call leaves them advanced
StreamingTransformer_forward_advanceFirst(sh, st, x) ==
    LET T == At(x.shape, 1)
        expandedPositions ==
            ExpandedPositions(IF st.impl = "none"
                              THEN zeros(<<1>>, x.device, x.buf + 1)
                              ELSE st.offsets,
                              At(x.shape, 0), T, x.device, x.buf + 3)
        scaledPosEmb ==
            scale(createSinEmbedding(expandedPositions, At(x.shape, 2),
                                     sh.maxPeriod, x.buf + 4),
                  sh.positionalScale, x.buf + 5)
        sinusoidal == sh.positionalEmbedding \in {"sin", "sin_rope"}
        x1 == IF sinusoidal THEN add(x, scaledPosEmb, x.buf + 6) ELSE x
        x2 == ApplyLayers(x1, sh.layers, x.buf + 7)
        state == IF st.impl = "none" THEN st ELSE AdvanceOffsets(st, T)
    IN IF sinusoidal /\ add_throws(x, scaledPosEmb)
       THEN [threw |-> TRUE, out |-> NoTensor.t, positions |-> <<>>,
             state |-> state]
       ELSE [threw |-> FALSE,
             out |-> Tensor(x2.data, x2.shape, x2.device, x.dtype, x2.buf),
             positions |-> IF sinusoidal THEN expandedPositions.data ELSE <<>>,
             state |-> state]

\* StreamingTransformer.forward(x) with st the attached state (NoState when
\* this.streamingState is undefined). The local positionsReshaped tensor
\* (a view of arange(T) written in place) is never read again and is left
\* out. Buffers: x.buf is the caller's; every typed array allocated by the
\* call gets a number of its own above x.buf.
StreamingTransformer_forward(sh, st, x) ==
    LET B == At(x.shape, 0)
        T == At(x.shape, 1)
        C == At(x.shape, 2)
        dtypeInput == x.dtype
        offsets == IF st.impl = "none" THEN zeros(<<1>>, x.device, x.buf + 1)
                   ELSE st.offsets
        sinusoidal == sh.positionalEmbedding \in {"sin", "sin_rope"}
        expandedPositions ==
            ExpandedPositions(offsets, B, T, x.device, x.buf + 3)
        posEmb == createSinEmbedding(expandedPositions, C, sh.maxPeriod,
                                     x.buf + 4)
        scaledPosEmb == scale(posEmb, sh.positionalScale, x.buf + 5)
        threw == sinusoidal /\ add_throws(x, scaledPosEmb)
        x1 == IF sinusoidal THEN add(x, scaledPosEmb, x.buf + 6) ELSE x
        x2 == ApplyLayers(x1, sh.layers, x.buf + 7)
    IN IF threw
       THEN [threw |-> TRUE, out |-> NoTensor.t, positions |-> <<>>,
             state |-> st]
       ELSE [threw |-> FALSE,
             out |-> Tensor(x2.data, x2.shape, x2.device, dtypeInput, x2.buf),
             positions |-> IF sinusoidal THEN expandedPositions.data ELSE <<>>,
             state |-> IF st.impl = "none" THEN st
                       ELSE AdvanceOffsets(st, T)]

---------------------------------------------------------------------------
(* ProjectedTransformer. *)

\* the outcome of the Math.random() calls of the k-th Linear constructed:
\* n weights in {-1, 0, 1}, different for different seeds
RandomWeights(seed, k, n) == [i \in 1..n |-> ((seed + k + i) % 3) - 1]

\* the input projection built by the constructor (NoLayer when absent)
InputProj(options, seed) ==
    IF options.dModel # options.inputDimension
    THEN Linear(options.inputDimension, options.dModel, FALSE,
                RandomWeights(seed, 0,
                              options.inputDimension * options.dModel))
    ELSE NoLayer

\* the output projections built by the constructor, in configuration order
OutputProjs(options, seed) ==
    [i \in 1..Len(options.outputDimensions) |->
        IF options.dModel = options.outputDimensions[i] THEN Identity
        ELSE Linear(options.dModel, options.outputDimensions[i], FALSE,
                    RandomWeights(seed, i,
                                  options.dModel * options.outputDimensions[i]))]

\* the options the constructor passes on: {dModel, ...transformerOptions}
InnerOptions(options) ==
    [options.transformerOptions EXCEPT !.dModel = options.dModel]

\* whether new ProjectedTransformer(options) throws
ProjectedTransformer_throws(options) ==
    StreamingTransformer_throws(InnerOptions(options))

\* new ProjectedTransformer(options) without its transformer field, which
\* is StreamingTransformer(InnerOptions(options)); options is kept for
\* reference only
ProjectedTransformer(options, seed) ==
    [exists |-> TRUE, convLayout |-> options.convLayout,
     inputProj |-> InputProj(options, seed),
     outputProjs |-> OutputProjs(options, seed),
     options |-> options]

\* ProjectedTransformer.forward(x), with sh the transformer field and st
\* the streaming state attached to it
ProjectedTransformer_forward(pr, sh, st, x) ==
    LET threwIn == pr.convLayout /\ transpose_throws(x, 1, 2)
        x0 == IF pr.convLayout THEN transpose(x, 1, 2, x.buf + 1) ELSE x
        x1 == IF pr.inputProj.class = "Linear"
              THEN Linear_forward(pr.inputProj, x0, x.buf + 2)
              ELSE x0
        z == StreamingTransformer_forward(sh, st, x1)
        y(i) == Layer_forward(pr.outputProjs[i], z.out, z.out.buf + 2 * i - 1)
        threwOut == \E i \in 1..Len(pr.outputProjs) :
                        pr.convLayout /\ transpose_throws(y(i), 1, 2)
    IN IF threwIn
       THEN [threw |-> TRUE, outs |-> <<>>, inner |-> NoTensor.t,
             state |-> st]
       ELSE IF z.threw
       THEN [threw |-> TRUE, outs |-> <<>>, inner |-> NoTensor.t,
             state |-> z.state]
       ELSE IF threwOut
       THEN [threw |-> TRUE, outs |-> <<>>, inner |-> z.out,
             state |-> z.state]
       ELSE [threw |-> FALSE,
             outs |-> [i \in 1..Len(pr.outputProjs) |->
                          IF pr.convLayout
                          THEN transpose(y(i), 1, 2, z.out.buf + 2 * i)
                          ELSE y(i)],
             inner |-> z.out,
             state |-> z.state]

---------------------------------------------------------------------------
(* WebTransformer (client) and NodeTransformer (server). *)

\* no transformer object. device is config.device, navGpu whether the
\* browser has navigator.gpu, pending the initialize() calls suspended at
\* their await: fresh ones, and stale ones that were called before the
\* latest dispose(). ready and adapter are history, not fields of the
\* object: ready, whether an initialize() called since construction or the
\* latest dispose() has completed, with no dispose() after it; adapter,
\* whether requestAdapter() has given an adapter to a completed initialize().
NoXf ==
    [impl |-> "none", initialized |-> FALSE, device |-> "undefined",
     navGpu |-> FALSE, pending |-> [fresh |-> 0, stale |-> 0],
     ready |-> FALSE, adapter |-> FALSE]

\* new WebTransformer(config) in a browser with or without navigator.gpu
WebTransformer(device, navGpu) ==
    [NoXf EXCEPT !.impl = "WebTransformer", !.device = device,
                 !.navGpu = navGpu]

\* new NodeTransformer(config)
NodeTransformer(device) ==
    [NoXf EXCEPT !.impl = "NodeTransformer", !.device = device]

\* whether initialize() reaches an await: NodeTransformer always waits for
\* its timer, WebTransformer only asks for a WebGPU adapter
initialize_awaits(t) ==
    \/ t.impl = "NodeTransformer"
    \/ t.impl = "WebTransformer" /\ t.device = "gpu" /\ t.navGpu

\* initialize() up to its first await, or to its end when there is none
initialize_call(t) ==
    IF t.initialized THEN t
    ELSE IF initialize_awaits(t)
    THEN [t EXCEPT !.pending.fresh = @ + 1]
    ELSE [t EXCEPT !.initialized = TRUE, !.ready = TRUE]

\* NodeTransformer.dispose(); the calls still suspended become stale
dispose(t) ==
    [t EXCEPT !.initialized = FALSE, !.ready = FALSE,
              !.pending = [fresh |-> 0, stale |-> @.fresh + @.stale]]

\* the outcomes of the await in WebTransformer.initialize
AdapterOutcomes == {"adapter", "null", "error"}

\* initialize() from its await to its end; which is "fresh" or "stale",
\* outcome what requestAdapter() gave (it only matters to WebTransformer)
initialize_resume(t, which, outcome) ==
    [t EXCEPT !.initialized = TRUE,
              !.ready = IF which = "fresh" THEN TRUE ELSE @,
              !.pending[which] = @ - 1,
              !.adapter = @ \/ (t.impl = "WebTransformer"
                                    /\ outcome = "adapter"),
              !.device = IF t.impl = "WebTransformer" /\ outcome # "adapter"
                         THEN "cpu" ELSE @]

\* whether forward(input) throws
Xf_forward_throws(t) == ~t.initialized

\* Math.sin(i * 0.1) * 0.1
SinTenth(i) ==
    IF i = 0 THEN Num(0)
    ELSE [k |-> "sinTenth", ints |-> <<i>>, subs |-> <<>>]

\* WebTransformer.forward(input) when it does not throw
WebTransformer_forward(input, buf) ==
    TypedTensor([i \in 1..Len(input.data) |->
                    Store("Float32Array", MulVal(input.data[i], 1))],
                input.shape, input.device, input.dtype, buf, "Float32Array")

\* NodeTransformer.forward(input) when it does not throw
NodeTransformer_forward(input, buf) ==
    TypedTensor([i \in 1..Len(input.data) |->
                    Store("Float32Array",
                          AddVal(input.data[i], SinTenth(i - 1)))],
                input.shape, input.device, input.dtype, buf, "Float32Array")

\* t.forward(input) when it does not throw
Xf_forward(t, input, buf) ==
    IF t.impl = "WebTransformer" THEN WebTransformer_forward(input, buf)
    ELSE NodeTransformer_forward(input, buf)

---------------------------------------------------------------------------
(* Inputs of the operations. *)

StateIds == {1}

AllStateIds == {1, 2}

BatchSizes == 1..MaxBatch

RECURSIVE BoolSeqs(_)
BoolSeqs(n) ==
    IF n = 0 THEN {<<>>}
    ELSE {Append(m, b) : m \in BoolSeqs(n - 1), b \in BOOLEAN}

\* boolean[] arguments: every array of length 0 .. MaxBatch
Masks == {Mask(m) : m \in UNION {BoolSeqs(n) : n \in 0..MaxBatch}}

\* a well-formed caller tensor: data[i] = i, in the caller's buffer 1; the
\* legacy Tensor's device and dtype (meta) are free-form optional strings
InputTensor(shape, meta) ==
    Tensor([i \in 1..Prod(shape) |-> Num(i - 1)], shape, meta[1], meta[2], 1)

\* rank-3 inputs [B, T, C]: time lengths 0, 1 and 2, even and odd widths,
\* batch sizes below, at and above the batch size of a state
Inputs ==
    {InputTensor(<<1, 1, 1>>, <<"cpu", "float32">>),
     InputTensor(<<2, 1, 2>>, <<"cpu", "float32">>),
     InputTensor(<<2, 2, 2>>, <<"gpu", "float64">>),
     InputTensor(<<1, 2, 3>>, <<"gpu", "float64">>),
     InputTensor(<<2, 0, 1>>, <<"cpu", "float32">>),
     InputTensor(<<MaxBatch + 1, 1, 2>>, <<"undefined", "undefined">>)}

\* the positionalEmbedding option: the valid kinds, omitted, and invalid
KindArgs == validEmbeddings \cup {"undefined", "", "absolute"}

Options(kind, numLayers) ==
    [dModel |-> 4, numHeads |-> 2, numLayers |-> numLayers,
     dimFeedforward |-> Omitted, causal |-> FALSE, context |-> Omitted,
     positionalEmbedding |-> kind, maxPeriod |-> Omitted,
     positionalScale |-> Omitted, checkpointing |-> FALSE]

ShellOptions ==
    {Options(kind, Given(n)) : kind \in KindArgs, n \in 0..MaxLayers}

---------------------------------------------------------------------------
(* The state machine of one shell and its streaming states. *)

NoCall ==
    [op |-> "none", id |-> 0, n |-> 0, kindArg |-> "undefined",
     how |-> "none", x |-> NoTensor.t, mask |-> NoMask, threw |-> FALSE,
     out |-> NoTensor.t, outs |-> <<>>, positions |-> <<>>, pre |-> NoState,
     preXf |-> NoXf, y |-> NoTensor.t, args |-> <<>>, src |-> 0, dst |-> 0]

NoFed == [clean |-> FALSE, sum |-> 0]

NoProjOptions ==
    [inputDimension |-> 0, outputDimensions |-> <<>>, dModel |-> 0,
     convLayout |-> FALSE, transformerOptions |-> Options("undefined", Omitted)]

NoProj ==
    [exists |-> FALSE, convLayout |-> FALSE, inputProj |-> NoLayer,
     outputProjs |-> <<>>, options |-> NoProjOptions]

---------------------------------------------------------------------------
(* MoshiServer: the clients map, the sockets, the NodeTransformers made   *)
(* for clients and the message handlers suspended at their await. A       *)
(* message is modelled by its type byte.                                  *)

MaxClients == 2

MaxMessages == 2

ClientIds == 1..MaxClients

\* the types of the messages a client sends
RequestTypes == {"TEXT", "AUDIO"}

\* a connection that was never made. inMap: the ClientConnection is in
\* this.clients; transformer: client.transformer, an index into srv.trans
\* (0 for undefined); socket: "none", "open", "closing" or "closed";
\* received and removedBy are history (messages delivered, the path that
\* took the client out of the map)
NoClient ==
    [inMap |-> FALSE, transformer |-> 0, socket |-> "none", received |-> 0,
     removedBy |-> "none"]

\* the server after its constructor. trans: every NodeTransformer created,
\* with the client it was created for; pending: the handlers suspended in
\* `await createServerTransformer(config)`, each with its own transformer;
\* sent: per client, the types of the messages put on its socket
NoSrv ==
    [clients |-> [c \in ClientIds |-> NoClient], trans |-> <<>>,
     pending |-> {},
     sent |-> [c \in ClientIds |-> <<>>],
     stopped |-> FALSE]

\* ws.send(message) of client c: nothing is put on a socket that is not open
ws_send(s, c, type) ==
    IF s.clients[c].socket = "open"
    THEN [s EXCEPT !.sent[c] = Append(@, type)]
    ELSE s

\* client.transformer.dispose() when client.transformer is set
disposeOf(s, c) ==
    LET t == s.clients[c].transformer
    IN IF t = 0 THEN s
       ELSE [s EXCEPT !.trans[t].initialized = FALSE,
                      !.trans[t].disposed = TRUE]

\* this.clients.delete(clientId)
clients_delete(s, c, path) ==
    IF s.clients[c].inMap
    THEN [s EXCEPT !.clients[c].inMap = FALSE,
                   !.clients[c].removedBy = path]
    ELSE s

\* ws.close() called by the server
ws_close(s, c) ==
    IF s.clients[c].socket = "open"
    THEN [s EXCEPT !.clients[c].socket = "closing"]
    ELSE s

\* mutant: the connection handler registers the client and sends nothing
connection_noInfo(s, c) ==
    [s EXCEPT !.clients[c] = [NoClient EXCEPT !.inMap = TRUE,
                                              !.socket = "open"]]

\* the 'connection' handler: the client is registered and the server-info
\* message sent
connection(s, c) ==
    ws_send([s EXCEPT !.clients[c] = [NoClient EXCEPT !.inMap = TRUE,
                                                      !.socket = "open"]],
            c, "METADATA")

\* handleAudioMessage / handleTextMessage from the forward call on: forward
\* throws on a transformer that is not initialized (the error is caught in
\* handleClientMessage); AUDIO is answered by TEXT and AUDIO, TEXT by TEXT
respond(s, c, type) ==
    LET t == s.clients[c].transformer
    IN IF ~s.trans[t].initialized THEN s
       ELSE IF type = "AUDIO"
       THEN ws_send(ws_send(s, c, "TEXT"), c, "AUDIO")
       ELSE ws_send(s, c, "TEXT")

\* the 'message' handler up to its await, or to its end when there is none
handleClientMessage(s, c, type) ==
    LET s1 == [s EXCEPT !.clients[c].received = @ + 1]
        t == Len(s.trans) + 1
    IN IF ~s.clients[c].inMap THEN s1
       ELSE IF s.clients[c].transformer = 0
       THEN [s1 EXCEPT
               !.trans = Append(@, [owner |-> c, initialized |-> FALSE,
                                    disposed |-> FALSE]),
               !.pending = @ \cup {[c |-> c, type |-> type, t |-> t]}]
       ELSE respond(s1, c, type)

\* a suspended handler h from the end of initialize() on: the new
\* transformer is initialized, assigned to the client object the handler
\* holds, and used
handler_resume(s, h) ==
    respond([s EXCEPT !.trans[h.t].initialized = TRUE,
                      !.clients[h.c].transformer = h.t,
                      !.pending = @ \ {h}],
            h.c, h.type)

\* the 'close' handler
onClose(s, c) ==
    LET s1 == IF s.clients[c].inMap THEN disposeOf(s, c) ELSE s
    IN [clients_delete(s1, c, "close") EXCEPT !.clients[c].socket = "closed"]

\* the 'error' handler; the socket closes after an error
onError(s, c) ==
    [clients_delete(s, c, "error") EXCEPT !.clients[c].socket = "closing"]

\* the cleanup timer's handling of one inactive client
cleanup(s, c) == clients_delete(disposeOf(ws_close(s, c), c), c, "cleanup")

\* stop(): the loop over this.clients.values(), from client c upwards, then
\* this.clients.clear()
RECURSIVE stopFrom(_, _)
stopFrom(s, c) ==
    IF c > MaxClients THEN s
    ELSE stopFrom(IF s.clients[c].inMap
                  THEN clients_delete(ws_close(disposeOf(s, c), c), c, "stop")
                  ELSE s,
                  c + 1)

stop(s) == [stopFrom(s, 1) EXCEPT !.stopped = TRUE]

\* the slots in which the caller holds tensors
Slots == 1..3

NoTens == [slot \in Slots |-> NoTensor.t]

Init ==
    /\ shell = NoShell
    /\ states = [id \in AllStateIds |-> NoState]
    /\ last = NoCall
    /\ fed = [id \in AllStateIds |-> NoFed]
    /\ proj = NoProj
    /\ xf = NoXf
    /\ tens = NoTens
    /\ srv = NoSrv

\* the state attached to the shell (NoState when streamingState is undefined)
Attached == IF shell.streamingState = 0 THEN NoState
            ELSE states[shell.streamingState]

\* new StreamingTransformer(options)
Construct(options) ==
    /\ ~shell.exists
    /\ shell' = IF StreamingTransformer_throws(options) THEN shell
                ELSE StreamingTransformer(options)
    /\ last' = [NoCall EXCEPT !.op = "construct",
                              !.kindArg = options.positionalEmbedding,
                              !.threw = StreamingTransformer_throws(options)]
    /\ UNCHANGED <<states, fed, proj, xf, tens, srv>>

\* const s = transformer.initStreamingState(batchSize)
CreateState(id, batchSize) ==
    /\ shell.exists
    /\ states[id] = NoState
    /\ states' = [states EXCEPT ![id] = initStreamingState(batchSize, -id)]
    /\ fed' = [fed EXCEPT ![id] = [clean |-> TRUE, sum |-> 0]]
    /\ last' = [NoCall EXCEPT !.op = "create", !.id = id, !.n = batchSize,
                              !.how = "initStreamingState"]
    /\ UNCHANGED <<shell, proj, xf, tens, srv>>

\* transformer.streamingState = s (id 0: undefined)
Attach(id) ==
    /\ shell.exists
    /\ id # shell.streamingState
    /\ id # 0 => states[id] # NoState
    /\ shell' = [shell EXCEPT !.streamingState = id]
    /\ last' = [NoCall EXCEPT !.op = "attach", !.id = id]
    /\ UNCHANGED <<states, fed, proj, xf, tens, srv>>

\* s.execMask = mask (NoMask: undefined)
SetExecMask(id, mask) ==
    /\ states[id] # NoState
    /\ states[id].execMask # mask
    /\ states' = [states EXCEPT ![id].execMask = mask]
    /\ fed' = [fed EXCEPT ![id] = NoFed]
    /\ last' = [NoCall EXCEPT !.op = "setExecMask", !.id = id, !.mask = mask]
    /\ UNCHANGED <<shell, proj, xf, tens, srv>>

\* s.reset(mask)
Reset(id, mask) ==
    /\ states[id] # NoState
    /\ LET r == reset(states[id], mask)
       IN /\ states' = [states EXCEPT ![id] = r.state]
          /\ fed' = [fed EXCEPT ![id] = IF r.threw THEN @ ELSE NoFed]
          /\ last' = [NoCall EXCEPT !.op = "reset", !.id = id, !.mask = mask,
                                    !.threw = r.threw, !.pre = states[id]]
    /\ UNCHANGED <<shell, proj, xf, tens, srv>>

\* the offsets a forward of time length T may reach stay within MaxOffset
WithinCap(st, T) ==
    \A i \in 1..Len(st.offsets.data) : NumOf(st.offsets.data[i]) + T <= MaxOffset

\* transformer.forward(x)
Forward(x) ==
    /\ shell.exists
    /\ WithinCap(Attached, At(x.shape, 1))
    /\ LET id == shell.streamingState
           r == StreamingTransformer_forward(shell, Attached, x)
       IN /\ states' = IF id = 0 THEN states
                       ELSE [states EXCEPT ![id] = r.state]
          /\ fed' = IF id = 0 \/ r.threw \/ ~fed[id].clean THEN fed
                    ELSE [fed EXCEPT ![id].sum = @ + At(x.shape, 1)]
          /\ last' = [NoCall EXCEPT !.op = "forward", !.id = id, !.x = x,
                                    !.threw = r.threw, !.out = r.out,
                                    !.positions = r.positions,
                                    !.pre = Attached]
    /\ UNCHANGED <<shell, proj, xf, tens, srv>>

Next ==
    \/ \E options \in ShellOptions : Construct(options)
    \/ \E id \in StateIds, n \in BatchSizes : CreateState(id, n)
    \/ \E id \in StateIds \cup {0} : Attach(id)
    \/ \E id \in StateIds, mask \in Masks \cup {NoMask} : SetExecMask(id, mask)
    \/ \E id \in StateIds, mask \in Masks \cup {NoMask} : Reset(id, mask)
    \/ \E x \in Inputs : Forward(x)

Spec == Init /\ [][Next]_vars

---------------------------------------------------------------------------
(* Properties of the shell and its streaming state. *)

\* the offsets of a state object as a sequence of numbers
Offs(st) == [i \in 1..Len(st.offsets.data) |-> NumOf(st.offsets.data[i])]

\* the time length of the last forward's input
LastT == At(last.x.shape, 1)

\* the last operation was a forward with a streaming state attached
ForwardWithState == last.op = "forward" /\ last.id # 0

\* C1: with a state attached and no execMask, one forward on an input of
\* time length T does not fail and increases every offset of the state (all
\* batchSize rows, whatever the input's batch dimension) by exactly T; and a
\* state that has only been fed by such forwards since its creation has
\* every offset equal to the sum of their time lengths.
C1_OffsetAccumulation ==
    /\ (ForwardWithState /\ ~last.pre.execMask.present) =>
          /\ ~last.threw
          /\ Len(Offs(states[last.id])) = last.pre.batchSize
          /\ \A i \in 1..last.pre.batchSize :
                Offs(states[last.id])[i] = Offs(last.pre)[i] + LastT
    /\ \A id \in AllStateIds :
          fed[id].clean =>
             \A i \in 1..states[id].batchSize :
                Offs(states[id])[i] = fed[id].sum

\* C1 witness: a second chunk of time length 2 after a first of length 1,
\* on an input whose batch dimension differs from the state's batch size
C1_Witness ==
    /\ ForwardWithState /\ ~last.pre.execMask.present
    /\ LastT = 2
    /\ At(last.x.shape, 0) # last.pre.batchSize
    /\ fed[last.id].clean /\ fed[last.id].sum = 3
    /\ Offs(last.pre) = <<1, 1>>

\* whether the execMask entry of row i (1-based) is the value false
MaskEntryFalse(mask, i) == i <= Len(mask.m) /\ mask.m[i] = FALSE

\* whether the execMask entry of row i (1-based) is the value true
MaskEntryTrue(mask, i) == i <= Len(mask.m) /\ mask.m[i] = TRUE

\* C2 as stated: with an execMask, a forward of time length T leaves offset
\* i unchanged exactly for the rows with execMask[i] == false and advances
\* by T every row whose mask entry is not false.
C2_Original ==
    (ForwardWithState /\ last.pre.execMask.present) =>
        \A i \in 1..last.pre.batchSize :
            Offs(states[last.id])[i] =
                IF MaskEntryFalse(last.pre.execMask, i)
                THEN Offs(last.pre)[i]
                ELSE Offs(last.pre)[i] + LastT

\* C2 amended: with an execMask, a forward of time length T advances by T
\* exactly the rows with execMask[i] == true and leaves every other row
\* unchanged: the rows whose entry is false and the rows beyond the end of
\* a mask shorter than the batch.
C2_ExecMask ==
    (ForwardWithState /\ last.pre.execMask.present) =>
        /\ ~last.threw
        /\ \A i \in 1..last.pre.batchSize :
              Offs(states[last.id])[i] =
                  IF MaskEntryTrue(last.pre.execMask, i)
                  THEN Offs(last.pre)[i] + LastT
                  ELSE Offs(last.pre)[i]

\* C2 witness: a forward of time length 2 under the mask [false, true]
C2_Witness ==
    /\ ForwardWithState
    /\ last.pre.execMask = Mask(<<FALSE, TRUE>>)
    /\ LastT = 2
    /\ Offs(last.pre) = <<0, 1>>
    /\ Offs(states[last.id]) = <<0, 3>>

\* C6: in every state reachable from a freshly created streaming state by
\* forward calls (any time length, any execMask) and reset calls (with or
\* without mask), every offset is a non-negative integer and the offsets
\* tensor keeps shape [batchSize].
C6_OffsetInvariant ==
    \A id \in AllStateIds :
        states[id] # NoState =>
            /\ states[id].offsets.shape = <<states[id].batchSize>>
            /\ Len(states[id].offsets.data) = states[id].batchSize
            /\ \A i \in 1..states[id].batchSize :
                  /\ IsNum(states[id].offsets.data[i])
                  /\ NumOf(states[id].offsets.data[i]) \in Nat

\* C6 witness: a masked reset after forwards under a mask has left the two
\* rows of a state at different offsets
C6_Witness ==
    /\ last.op = "reset" /\ ~last.threw
    /\ Offs(last.pre) = <<1, 3>>
    /\ Offs(states[last.id]) = <<0, 3>>

\* whether the shell injects the sinusoidal embedding
Sinusoidal == shell.positionalEmbedding \in {"sin", "sin_rope"}

\* the position forward used for batch row b and local time step t (0-based)
LastPosition(b, t) == NumOf(At(last.positions, b * LastT + t))

\* C7: in a forward with a sinusoidal kind the position used for batch row b
\* and local time step t is t + offset[b], with offset[b] the row's offset
\* in the attached state before the call and 0 for every row when no state
\* is attached; and after the call the offset of every row the call
\* advanced is the row's last position plus one, which is where the next
\* chunk starts.
C7_AbsolutePositions ==
    (last.op = "forward" /\ Sinusoidal) =>
        LET B == At(last.x.shape, 0)
            rows == IF last.id = 0 THEN B ELSE Min(B, last.pre.batchSize)
        IN /\ Len(last.positions) = B * LastT
           /\ \A b \in 0..(rows - 1), t \in 0..(LastT - 1) :
                 LastPosition(b, t) =
                     t + (IF last.id = 0 THEN 0 ELSE Offs(last.pre)[b + 1])
           /\ \A b \in 0..(rows - 1) :
                 (/\ last.id # 0
                  /\ LastT > 0
                  /\ Offs(states[last.id])[b + 1] # Offs(last.pre)[b + 1])
                 => Offs(states[last.id])[b + 1] = LastPosition(b, LastT - 1) + 1

\* C7 witness: a chunk of two steps fed to a row that already stands at 1
C7_Witness ==
    /\ ForwardWithState /\ Sinusoidal
    /\ LastT = 2
    /\ Offs(last.pre)[1] = 1
    /\ LastPosition(0, 0) = 1 /\ LastPosition(0, 1) = 2
    /\ Offs(states[last.id])[1] = 3

\* C8: forward on an input of shape [B, T, C] does not fail and returns a
\* tensor of shape [B, T, C] with the input's element-type tag and device
\* tag, for every valid kind, any number of layers, with or without state.
C8_ShapeAndMetadata ==
    last.op = "forward" =>
        /\ ~last.threw
        /\ last.out.shape = last.x.shape
        /\ Len(last.out.data) = Prod(last.x.shape)
        /\ last.out.dtype = last.x.dtype
        /\ last.out.device = last.x.device

\* C8 witness: a float64 / gpu input through a sinusoidal shell with a layer
\* and a state attached
C8_Witness ==
    /\ ForwardWithState /\ Sinusoidal /\ shell.layers = 1
    /\ last.x.dtype = "float64" /\ last.x.device = "gpu"
    /\ last.out.shape = <<2, 2, 2>>

\* C9 as stated: constructing a shell with a kind outside {sin, rope,
\* sin_rope, none} fails at construction, so no shell with an invalid kind
\* ever exists.
C9_ConfigurationValidation ==
    /\ (/\ last.op = "construct"
        /\ last.kindArg # "undefined"
        /\ last.kindArg \notin validEmbeddings) => last.threw
    /\ shell.exists => shell.positionalEmbedding \in validEmbeddings

---------------------------------------------------------------------------
(* The state machine of a streaming state of any of the three classes,     *)
(* driven by its constructor, its factories, reset and the direct writes   *)
(* to offsets.data that the tests and examples perform.                    *)

\* the ways a streaming state is created
Creators ==
    {"new TransformerState", "initStreamingState", "new WebStreamingState",
     "WebTransformer.createStreamingState", "new NodeStreamingState",
     "NodeTransformer.createStreamingState"}

\* device arguments: omitted, or a device
DeviceArgs == {"undefined", "cpu", "gpu"}

\* the object a creator returns for batch size n
Created(how, n, device, buf) ==
    CASE how = "new TransformerState" ->
            TransformerState(n, device, NoTensor, buf)
      [] how = "initStreamingState" -> initStreamingState(n, buf)
      [] how = "new WebStreamingState" -> WebStreamingState(n, device, buf)
      [] how = "WebTransformer.createStreamingState" ->
            WebTransformer_createStreamingState(device, n, buf)
      [] how = "new NodeStreamingState" -> NodeStreamingState(n, device, buf)
      [] OTHER ->
            NodeTransformer_createStreamingState(
                IF device = "undefined" THEN "cpu" ELSE device, n, buf)

InitState ==
    /\ shell = NoShell
    /\ states = [id \in AllStateIds |-> NoState]
    /\ last = NoCall
    /\ fed = [id \in AllStateIds |-> NoFed]
    /\ proj = NoProj
    /\ xf = NoXf
    /\ tens = NoTens
    /\ srv = NoSrv

\* s = a new streaming state for batch size n
StCreate(id, how, n, device) ==
    /\ states[id] = NoState
    /\ states' = [states EXCEPT ![id] = Created(how, n, device, -id)]
    /\ last' = [NoCall EXCEPT !.op = "create", !.id = id, !.n = n,
                              !.how = how]
    /\ UNCHANGED <<shell, fed, proj, xf, tens, srv>>

\* s.offsets.data[i] = v
StWrite(id, i, v) ==
    /\ states[id] # NoState
    /\ i < Len(states[id].offsets.data)
    /\ states' = [states EXCEPT ![id].offsets.data[i + 1] = Num(v)]
    /\ last' = [NoCall EXCEPT !.op = "write", !.id = id, !.n = i,
                              !.pre = states[id]]
    /\ UNCHANGED <<shell, fed, proj, xf, tens, srv>>

\* the conversation ends and s is dropped
StDiscard(id) ==
    /\ states[id] # NoState
    /\ states' = [states EXCEPT ![id] = NoState]
    /\ last' = [NoCall EXCEPT !.op = "discard", !.id = id]
    /\ UNCHANGED <<shell, fed, proj, xf, tens, srv>>

NextState ==
    \/ \E id \in StateIds, how \in Creators, n \in BatchSizes,
          device \in DeviceArgs : StCreate(id, how, n, device)
    \/ \E id \in StateIds, i \in 0..(MaxBatch - 1), v \in 0..MaxOffset :
          StWrite(id, i, v)
    \/ \E id \in StateIds, mask \in Masks \cup {NoMask} : Reset(id, mask)
    \/ \E id \in StateIds : StDiscard(id)

SpecState == InitState /\ [][NextState]_vars

\* the last operation was a reset given a mask / given no mask
MaskedReset == last.op = "reset" /\ last.mask.present

FullReset == last.op = "reset" /\ ~last.mask.present

\* C3: for every streaming-state class, reset(mask) with a mask provided
\* does not fail, sets offset i to zero for exactly the indices
\* i < min(mask.length, batchSize) with mask[i] == true, and leaves every
\* other offset, batchSize and the rest of the object unchanged.
C3_SelectiveReset ==
    MaskedReset =>
        /\ ~last.threw
        /\ Len(Offs(states[last.id])) = last.pre.batchSize
        /\ \A i \in 1..last.pre.batchSize :
              Offs(states[last.id])[i] =
                  IF i <= Len(last.mask.m) /\ last.mask.m[i] THEN 0
                  ELSE Offs(last.pre)[i]
        /\ states[last.id] = [last.pre EXCEPT !.offsets.data =
                                  states[last.id].offsets.data]

\* C3 witness: a NodeStreamingState of two rows at <<2, 3>> reset with the
\* one-entry mask [true]: row 0 is zeroed, row 1 beyond the mask is kept
C3_Witness ==
    /\ MaskedReset
    /\ last.pre.impl = "NodeStreamingState"
    /\ last.mask = Mask(<<TRUE>>)
    /\ Offs(last.pre) = <<2, 3>>
    /\ Offs(states[last.id]) = <<0, 3>>

\* C4 as stated: for every streaming-state class, reset() with the mask
\* omitted completes without error and sets every offset to zero.
C4_FullReset ==
    FullReset =>
        /\ ~last.threw
        /\ \A i \in 1..last.pre.batchSize : Offs(states[last.id])[i] = 0

\* C5: a streaming state created for batch size n, by any constructor or
\* factory, has batchSize n and an offsets tensor of shape [n] whose n
\* elements are all zero.
C5_InitialState ==
    last.op = "create" =>
        /\ states[last.id].batchSize = last.n
        /\ states[last.id].offsets.shape = <<last.n>>
        /\ Len(states[last.id].offsets.data) = last.n
        /\ \A i \in 1..last.n : states[last.id].offsets.data[i] = Num(0)
        /\ ~states[last.id].execMask.present

\* C5 witness: NodeTransformer.createStreamingState(2)
C5_Witness ==
    /\ last.op = "create"
    /\ last.how = "NodeTransformer.createStreamingState"
    /\ last.n = 2
    /\ Offs(states[last.id]) = <<0, 0>>

---------------------------------------------------------------------------
(* The state machine of one ProjectedTransformer; shell is its transformer *)
(* field.                                                                  *)

ProjOptions(inputDimension, outputDimensions, dModel, convLayout, kind, n) ==
    [inputDimension |-> inputDimension, outputDimensions |-> outputDimensions,
     dModel |-> dModel, convLayout |-> convLayout,
     transformerOptions |-> Options(kind, n)]

\* constructor arguments: the configurations of the test suite (6 -> 4 ->
\* [4, 8] and channel-first 6 -> 6 -> [6]), both layouts, with and without projections, no output at all,
\* and an invalid kind
ProjOptionsSet ==
    {ProjOptions(6, <<4, 8>>, 4, FALSE, "undefined", Given(1)),
     ProjOptions(3, <<2, 3, 2>>, 2, FALSE, "sin", Given(1)),
     ProjOptions(2, <<2>>, 2, FALSE, "none", Omitted),
     ProjOptions(2, <<>>, 2, FALSE, "rope", Given(0)),
     ProjOptions(2, <<2>>, 2, TRUE, "none", Given(1)),
     ProjOptions(3, <<1, 3>>, 2, TRUE, "sin_rope", Given(1)),
     ProjOptions(6, <<6>>, 6, TRUE, "undefined", Given(1)),
     ProjOptions(2, <<2>>, 2, FALSE, "absolute", Given(1))}

RandomSeeds == {0, 1}

\* inputs of rank 3, with feature widths 1, 2, 3 and 6 on the last or the
\* middle axis, and one input of rank 4
ProjInputs ==
    {InputTensor(<<2, 3, 6>>, <<"cpu", "float32">>),
     InputTensor(<<1, 1, 6>>, <<"gpu", "float64">>),
     InputTensor(<<2, 1, 3>>, <<"cpu", "float32">>),
     InputTensor(<<1, 2, 3>>, <<"undefined", "undefined">>),
     InputTensor(<<1, 3, 2>>, <<"cpu", "float32">>),
     InputTensor(<<2, 2, 2>>, <<"gpu", "float64">>),
     InputTensor(<<1, 2, 1>>, <<"cpu", "float32">>),
     InputTensor(<<2, 6, 3>>, <<"cpu", "float32">>),
     InputTensor(<<1, 1, 2, 2>>, <<"cpu", "float32">>)}

InitProj ==
    /\ shell = NoShell
    /\ states = [id \in AllStateIds |-> NoState]
    /\ last = NoCall
    /\ fed = [id \in AllStateIds |-> NoFed]
    /\ proj = NoProj
    /\ xf = NoXf
    /\ tens = NoTens
    /\ srv = NoSrv

\* new ProjectedTransformer(options)
ProjConstruct(options, seed) ==
    /\ ~proj.exists
    /\ IF ProjectedTransformer_throws(options)
       THEN UNCHANGED <<shell, proj, srv>>
       ELSE /\ shell' = StreamingTransformer(InnerOptions(options))
            /\ proj' = ProjectedTransformer(options, seed)
    /\ last' = [NoCall EXCEPT
                  !.op = "projConstruct",
                  !.kindArg = options.transformerOptions.positionalEmbedding,
                  !.threw = ProjectedTransformer_throws(options)]
    /\ UNCHANGED <<states, fed, xf, tens, srv>>

\* projTransformer.forward(x)
ProjForward(x) ==
    /\ proj.exists
    /\ WithinCap(Attached, At(x.shape, IF proj.convLayout THEN 2 ELSE 1))
    /\ LET id == shell.streamingState
           r == ProjectedTransformer_forward(proj, shell, Attached, x)
       IN /\ states' = IF id = 0 THEN states
                       ELSE [states EXCEPT ![id] = r.state]
          /\ last' = [NoCall EXCEPT !.op = "projForward", !.id = id, !.x = x,
                                    !.threw = r.threw, !.out = r.inner,
                                    !.outs = r.outs, !.pre = Attached]
    /\ fed' = [id \in AllStateIds |-> NoFed]
    /\ UNCHANGED <<shell, proj, xf, tens, srv>>

NextProj ==
    \/ \E options \in ProjOptionsSet, seed \in RandomSeeds :
          ProjConstruct(options, seed)
    \/ \E id \in StateIds, n \in BatchSizes : CreateState(id, n)
    \/ \E id \in StateIds \cup {0} : Attach(id)
    \/ \E x \in ProjInputs : ProjForward(x)

SpecProj == InitProj /\ [][NextProj]_vars

\* the last operation was a ProjectedTransformer.forward on an input of
\* rank 3 whose feature axis (0-based) has the configured input width
ProjForwardOn(axis) ==
    /\ last.op = "projForward"
    /\ Len(last.x.shape) = 3
    /\ At(last.x.shape, axis) = proj.options.inputDimension

\* C10: ProjectedTransformer.forward returns exactly one tensor per
\* configured output width, in configuration order; in sequence-first
\* layout, for an input of shape [B, T, inputWidth], it does not fail and
\* the i-th output has shape [B, T, outputWidths[i]].
C10_ProjectedOutputs ==
    /\ (last.op = "projForward" /\ ~last.threw) =>
          Len(last.outs) = Len(proj.options.outputDimensions)
    /\ (ProjForwardOn(2) /\ ~proj.convLayout) =>
          /\ ~last.threw
          /\ \A i \in 1..Len(proj.options.outputDimensions) :
                /\ last.outs[i].shape =
                      <<At(last.x.shape, 0), At(last.x.shape, 1),
                        proj.options.outputDimensions[i]>>
                /\ Len(last.outs[i].data) = Prod(last.outs[i].shape)

\* C10 witness: inputWidth 6, outputWidths [4, 8], modelWidth 4 on an input
\* of shape [2, 3, 6] gives shapes [2, 3, 4] and [2, 3, 8]
C10_Witness ==
    /\ ProjForwardOn(2) /\ ~proj.convLayout
    /\ proj.options.outputDimensions = <<4, 8>>
    /\ proj.options.dModel = 4
    /\ last.x.shape = <<2, 3, 6>>
    /\ Len(last.outs) = 2
    /\ last.outs[1].shape = <<2, 3, 4>>
    /\ last.outs[2].shape = <<2, 3, 8>>

\* C11: in channel-first layout, ProjectedTransformer.forward on an input of
\* shape [B, C, T] with C the configured input width does not fail and
\* returns the i-th output with shape [B, outputWidths[i], T]; an output
\* whose width equals the input channel count has the shape of the input.
C11_ChannelFirst ==
    (ProjForwardOn(1) /\ proj.convLayout) =>
        /\ ~last.threw
        /\ Len(last.outs) = Len(proj.options.outputDimensions)
        /\ \A i \in 1..Len(proj.options.outputDimensions) :
              /\ last.outs[i].shape =
                    <<At(last.x.shape, 0), proj.options.outputDimensions[i],
                      At(last.x.shape, 2)>>
              /\ Len(last.outs[i].data) = Prod(last.outs[i].shape)
              /\ proj.options.outputDimensions[i] = At(last.x.shape, 1) =>
                    last.outs[i].shape = last.x.shape

\* C11 witness: channel-first 3 -> 2 -> [1, 3] on an input of shape
\* [1, 3, 2] gives shapes [1, 1, 2] and [1, 3, 2]
C11_Witness ==
    /\ ProjForwardOn(1) /\ proj.convLayout
    /\ proj.options.outputDimensions = <<1, 3>>
    /\ last.x.shape = <<1, 3, 2>>
    /\ last.outs[1].shape = <<1, 1, 2>>
    /\ last.outs[2].shape = last.x.shape

---------------------------------------------------------------------------
(* The state machine of one WebTransformer or NodeTransformer: its         *)
(* construction, initialize() split at its await, forward and dispose.     *)

MaxPending == 2

\* a typed tensor of the web or server module: data[i] = i + 1/10 as a
\* double, stored in an array of class arr, in the caller's buffer 1
TypedInput(shape, device, dtype, arr) ==
    TypedTensor([i \in 1..Prod(shape) |-> Store(arr, Frac(i - 1))],
                shape, device, dtype, 1, arr)

XfInputs ==
    {TypedInput(<<2, 1>>, "cpu", "float32", "Float32Array"),
     TypedInput(<<1, 2, 2>>, "gpu", "float64", "Float64Array"),
     TypedInput(<<3>>, "cpu", "int32", "Int32Array")}

InitLife ==
    /\ shell = NoShell
    /\ states = [id \in AllStateIds |-> NoState]
    /\ last = NoCall
    /\ fed = [id \in AllStateIds |-> NoFed]
    /\ proj = NoProj
    /\ xf = NoXf
    /\ tens = NoTens
    /\ srv = NoSrv

\* new WebTransformer(config) / new NodeTransformer(config)
XfConstruct(impl, device, navGpu) ==
    /\ xf.impl = "none"
    /\ xf' = IF impl = "WebTransformer" THEN WebTransformer(device, navGpu)
             ELSE NodeTransformer(device)
    /\ last' = [NoCall EXCEPT !.op = "xfConstruct", !.how = impl]
    /\ UNCHANGED <<shell, states, fed, proj, tens, srv>>

\* the call t.initialize(), up to its await
XfInitialize ==
    /\ xf.impl # "none"
    /\ xf.pending.fresh + xf.pending.stale < MaxPending
    /\ xf' = initialize_call(xf)
    /\ last' = [NoCall EXCEPT !.op = "initialize", !.preXf = xf]
    /\ UNCHANGED <<shell, states, fed, proj, tens, srv>>

\* a suspended initialize() resumes after its await and runs to its end
XfInitializeResume(which, outcome) ==
    /\ xf.pending[which] > 0
    /\ xf.impl = "NodeTransformer" => outcome = "adapter"
    /\ xf' = initialize_resume(xf, which, outcome)
    /\ last' = [NoCall EXCEPT !.op = "initializeResume", !.how = which,
                              !.kindArg = outcome, !.preXf = xf]
    /\ UNCHANGED <<shell, states, fed, proj, tens, srv>>

\* t.dispose()
XfDispose ==
    /\ xf.impl = "NodeTransformer"
    /\ xf' = dispose(xf)
    /\ last' = [NoCall EXCEPT !.op = "dispose", !.preXf = xf]
    /\ UNCHANGED <<shell, states, fed, proj, tens, srv>>

\* t.createStreamingState(batchSize)
XfCreateState(n) ==
    /\ xf.impl # "none"
    /\ states' =
          [states EXCEPT
              ![1] = IF xf.impl = "WebTransformer"
                     THEN WebTransformer_createStreamingState(xf.device, n, 1)
                     ELSE NodeTransformer_createStreamingState(xf.device, n,
                                                               1)]
    /\ last' = [NoCall EXCEPT !.op = "xfCreateState", !.n = n, !.preXf = xf]
    /\ UNCHANGED <<shell, fed, proj, xf, tens, srv>>

\* t.forward(input)
XfForward(x) ==
    /\ xf.impl # "none"
    /\ last' = [NoCall EXCEPT
                  !.op = "xfForward", !.x = x, !.preXf = xf,
                  !.threw = Xf_forward_throws(xf),
                  !.out = IF Xf_forward_throws(xf) THEN NoTensor.t
                          ELSE Xf_forward(xf, x, x.buf + 1)]
    /\ UNCHANGED <<shell, states, fed, proj, xf, tens, srv>>

NextLife ==
    \/ \E impl \in {"WebTransformer", "NodeTransformer"},
          device \in {"undefined", "cpu", "gpu"}, navGpu \in BOOLEAN :
          XfConstruct(impl, device, navGpu)
    \/ XfInitialize
    \/ \E which \in {"fresh", "stale"}, outcome \in AdapterOutcomes :
          XfInitializeResume(which, outcome)
    \/ XfDispose
    \/ \E n \in BatchSizes : XfCreateState(n)
    \/ \E x \in XfInputs : XfForward(x)

SpecLife == InitLife /\ [][NextLife]_vars

\* C12 as stated: forward fails whenever no initialize() has completed on
\* the instance, and for NodeTransformer also after dispose() until a new
\* initialize() (one called after the dispose) has completed; it succeeds
\* otherwise; a failed forward changes nothing; initialize() on an
\* initialized instance is a no-op.
C12_InitializationLifecycle ==
    /\ last.op = "xfForward" =>
          /\ last.threw <=> ~last.preXf.ready
          /\ last.threw => xf = last.preXf /\ last.out = NoTensor.t
    /\ (last.op = "initialize" /\ last.preXf.initialized) =>
          xf = last.preXf

\* the part of C12 that holds: forward fails exactly when the initialized
\* flag is false, which it is until the first initialize() has completed
C12_FlagGuardsForward ==
    /\ last.op = "xfForward" =>
          /\ last.threw <=> ~last.preXf.initialized
          /\ last.threw => xf = last.preXf /\ last.out = NoTensor.t
    /\ (last.op = "initialize" /\ last.preXf.initialized) =>
          xf = last.preXf
    /\ (xf.impl # "none" /\ ~xf.initialized) => ~xf.ready

---------------------------------------------------------------------------
(* The state machine of a caller of the three tensor utility sets: it      *)
(* holds tensors in slots, applies an operation to the tensors of some     *)
(* slots and keeps the result in a higher, empty slot, and writes          *)
(* elements through the tensors it holds.                                  *)

UtilSets == {"TensorUtils", "WebTensorUtils", "ServerTensorUtils"}

\* a caller-made tensor over a new typed array of class arr: element i is
\* i + base (an integer) or, when fractional, the double i + 1/10
MadeTensor(shape, dtype, arr, base, fractional) ==
    TypedTensor([i \in 1..Prod(shape) |->
                    Store(arr, IF fractional THEN Frac(i - 1)
                               ELSE Num(i - 1 + base))],
                shape, "cpu", dtype, 0, arr)

\* the tensors a caller makes: ranks 1, 2 and 3, the three array classes,
\* fractions, and an int32 above 2^24
MadeTensors ==
    {MadeTensor(<<2, 3>>, "float32", "Float32Array", 0, FALSE),
     MadeTensor(<<6>>, "float32", "Float32Array", 1, FALSE),
     MadeTensor(<<2, 2, 3>>, "float32", "Float32Array", 1, FALSE),
     MadeTensor(<<2, 2>>, "float64", "Float64Array", 0, TRUE),
     MadeTensor(<<1>>, "int32", "Int32Array", 16777217, FALSE)}

\* shape arguments of reshape / view
ShapeArgs ==
    {<<3, 2>>, <<6>>, <<2, 2>>, <<4, -1>>, <<-1, 3>>, <<-1, -1>>,
     <<-2, -3>>, <<0, -1>>}

\* shape arguments of zeros
ZerosArgs == {<<2>>, <<1, 2, 2>>, <<2, 0>>, <<-1, 2>>, <<-1, -2>>}

\* (start, end, step) arguments of arange; the legacy arange takes end
ArangeArgs == {<<0, 3, 1>>, <<1, 6, 2>>, <<0, 0, 1>>, <<3, 0, 1>>, <<0, 0, 0>>}

\* axis pairs of transpose
AxisPairs == {<<1, 2>>, <<2, 1>>, <<0, 1>>, <<1, 1>>}

Scalars == {0, 1, 2}

\* whether the legacy TensorUtils accepts t: its Tensor holds a Float32Array
Accepts(util, t) == util = "TensorUtils" => t.arr = "Float32Array"

\* a typed array identity no held tensor uses
FreshBuf ==
    LET Max(a, b) == IF a > b THEN a ELSE b
    IN 1 + Max(tens[1].buf, Max(tens[2].buf, tens[3].buf))

Held(slot) == tens[slot] # NoTensor.t

\* the model follows only tensors whose shape entries are integers
Whole(slot) == Held(slot) /\ tens[slot].frac = {}

InitTensor ==
    /\ shell = NoShell
    /\ states = [id \in AllStateIds |-> NoState]
    /\ last = NoCall
    /\ fed = [id \in AllStateIds |-> NoFed]
    /\ proj = NoProj
    /\ xf = NoXf
    /\ tens = NoTens
    /\ srv = NoSrv

\* const t = { data: new XArray([...]), shape, device, dtype }
TMake(dst, t) ==
    /\ dst \in {1, 2} /\ ~Held(dst)
    /\ tens' = [tens EXCEPT ![dst] = [t EXCEPT !.buf = FreshBuf]]
    /\ last' = [NoCall EXCEPT !.op = "make", !.dst = dst]
    /\ UNCHANGED <<shell, states, fed, proj, xf, srv>>

\* the result slot of an operation: it keeps the result unless the
\* operation threw
Result(dst, threw, t) == IF threw THEN tens ELSE [tens EXCEPT ![dst] = t]

\* zeros(shape, dtype)
TZeros(util, dst, shape, dtype) ==
    /\ dst = 1 /\ ~Held(dst)
    /\ util = "TensorUtils" => dtype = "undefined"
    /\ LET threw == zeros_throws(shape)
           t == CASE threw -> NoTensor.t
                  [] util = "TensorUtils" -> zeros(shape, "undefined", FreshBuf)
                  [] util = "WebTensorUtils" ->
                        WebTensorUtils_zeros(shape, dtype, FreshBuf)
                  [] OTHER ->
                        ServerTensorUtils_zeros(shape, dtype, "undefined",
                                                FreshBuf)
       IN /\ tens' = Result(dst, threw, t)
          /\ last' = [NoCall EXCEPT !.op = "zeros", !.how = util,
                                    !.dst = dst, !.args = shape,
                                    !.kindArg = dtype, !.threw = threw,
                                    !.out = t]
    /\ UNCHANGED <<shell, states, fed, proj, xf, srv>>

\* arange(end) of the legacy module, arange(start, end, step) of the others
TArange(util, dst, a) ==
    /\ dst = 1 /\ ~Held(dst)
    /\ util = "TensorUtils" => a[1] = 0 /\ a[3] = 1 /\ a[2] >= 0
    /\ LET threw == util # "TensorUtils" /\ arange_throws(a[1], a[2], a[3])
           t == CASE threw -> NoTensor.t
                  [] util = "TensorUtils" -> arange(a[2], "undefined", FreshBuf)
                  [] util = "WebTensorUtils" ->
                        WebTensorUtils_arange(a[1], a[2], a[3], "undefined",
                                              FreshBuf)
                  [] OTHER ->
                        ServerTensorUtils_arange(a[1], a[2], a[3],
                                                 "undefined", "undefined",
                                                 FreshBuf)
       IN /\ tens' = Result(dst, threw, t)
          /\ last' = [NoCall EXCEPT !.op = "arange", !.how = util,
                                    !.dst = dst, !.args = a, !.threw = threw,
                                    !.out = t]
    /\ UNCHANGED <<shell, states, fed, proj, xf, srv>>

\* view(tensor, ...newShape) of the legacy module, reshape(tensor, newShape)
\* of the others
TReshape(util, src, dst, newShape, roundsBack) ==
    /\ Whole(src) /\ dst > src /\ ~Held(dst)
    /\ Accepts(util, tens[src])
    /\ ~roundsBack =>
          /\ util = "TensorUtils"
          /\ Cardinality(InferDims(newShape)) = 1
          /\ KnownSize(newShape) # 0
          /\ ~ExactQuotient(Len(tens[src].data), KnownSize(newShape))
    /\ LET x == tens[src]
           threw == IF util = "TensorUtils"
                    THEN view_throws(x, newShape, roundsBack)
                    ELSE reshape_throws(x, newShape)
           t == CASE threw -> NoTensor.t
                  [] util = "TensorUtils" -> view(x, newShape, FreshBuf)
                  [] util = "WebTensorUtils" ->
                        WebTensorUtils_reshape(x, newShape, FreshBuf)
                  [] OTHER -> ServerTensorUtils_reshape(x, newShape, FreshBuf)
       IN /\ tens' = Result(dst, threw, t)
          /\ last' = [NoCall EXCEPT !.op = "reshape", !.how = util,
                                    !.src = src, !.dst = dst, !.x = x,
                                    !.args = newShape, !.threw = threw,
                                    !.out = t]
    /\ UNCHANGED <<shell, states, fed, proj, xf, srv>>

\* TensorUtils.transpose(tensor, dim0, dim1)
TTranspose(src, dst, dims) ==
    /\ Whole(src) /\ dst > src /\ ~Held(dst)
    /\ Accepts("TensorUtils", tens[src])
    /\ LET x == tens[src]
           threw == transpose_throws(x, dims[1], dims[2])
           t == IF threw THEN NoTensor.t
                ELSE transpose(x, dims[1], dims[2], FreshBuf)
       IN /\ tens' = Result(dst, threw, t)
          /\ last' = [NoCall EXCEPT !.op = "transpose", !.how = "TensorUtils",
                                    !.src = src, !.dst = dst, !.x = x,
                                    !.args = dims, !.threw = threw, !.out = t]
    /\ UNCHANGED <<shell, states, fed, proj, xf, srv>>

\* add(a, b)
TAdd(util, a, b, dst) ==
    /\ Whole(a) /\ Whole(b) /\ dst > a /\ dst > b /\ ~Held(dst)
    /\ Accepts(util, tens[a]) /\ Accepts(util, tens[b])
    /\ LET x == tens[a]
           y == tens[b]
           threw == CASE util = "TensorUtils" -> add_throws(x, y)
                      [] util = "WebTensorUtils" ->
                            WebTensorUtils_add_throws(x, y)
                      [] OTHER -> ServerTensorUtils_add_throws(x, y)
           t == CASE threw -> NoTensor.t
                  [] util = "TensorUtils" -> add(x, y, FreshBuf)
                  [] util = "WebTensorUtils" ->
                        WebTensorUtils_add(x, y, FreshBuf)
                  [] OTHER -> ServerTensorUtils_add(x, y, FreshBuf)
       IN /\ tens' = Result(dst, threw, t)
          /\ last' = [NoCall EXCEPT !.op = "add", !.how = util, !.src = a,
                                    !.dst = dst, !.x = x, !.y = y,
                                    !.threw = threw, !.out = t]
    /\ UNCHANGED <<shell, states, fed, proj, xf, srv>>

\* scale(tensor, scalar)
TScale(util, src, dst, scalar) ==
    /\ Whole(src) /\ dst > src /\ ~Held(dst)
    /\ Accepts(util, tens[src])
    /\ LET x == tens[src]
           t == CASE util = "TensorUtils" -> scale(x, scalar, FreshBuf)
                  [] util = "WebTensorUtils" ->
                        WebTensorUtils_scale(x, scalar, FreshBuf)
                  [] OTHER -> ServerTensorUtils_scale(x, scalar, FreshBuf)
       IN /\ tens' = Result(dst, FALSE, t)
          /\ last' = [NoCall EXCEPT !.op = "scale", !.how = util,
                                    !.src = src, !.dst = dst, !.x = x,
                                    !.n = scalar, !.out = t]
    /\ UNCHANGED <<shell, states, fed, proj, xf, srv>>

\* t.data[i] = v through the tensor of a slot: every held tensor over the
\* same typed array sees the element (writes to an array that no other
\* held tensor shares are left out)
TWrite(slot, i, v) ==
    /\ Held(slot) /\ i < Len(tens[slot].data)
    /\ \E other \in Slots \ {slot} : tens[other].buf = tens[slot].buf
    /\ At(tens[slot].data, i) # Store(tens[slot].arr, v)
    /\ tens' = [s \in Slots |->
                  IF tens[s].buf = tens[slot].buf
                  THEN [tens[s] EXCEPT
                          !.data[i + 1] = Store(tens[slot].arr, v)]
                  ELSE tens[s]]
    /\ last' = [NoCall EXCEPT !.op = "write", !.src = slot, !.n = i,
                              !.x = tens[slot]]
    /\ UNCHANGED <<shell, states, fed, proj, xf, srv>>

NextTensor ==
    \/ \E dst \in Slots, t \in MadeTensors : TMake(dst, t)
    \/ \E util \in UtilSets, dst \in Slots, shape \in ZerosArgs,
          dtype \in {"undefined", "float64", "int32"} :
          TZeros(util, dst, shape, dtype)
    \/ \E util \in UtilSets, dst \in Slots, a \in ArangeArgs :
          TArange(util, dst, a)
    \/ \E util \in UtilSets, src \in Slots, dst \in Slots,
          newShape \in ShapeArgs, roundsBack \in BOOLEAN :
          TReshape(util, src, dst, newShape, roundsBack)
    \/ \E src \in Slots, dst \in Slots, dims \in AxisPairs :
          TTranspose(src, dst, dims)
    \/ \E util \in UtilSets, a \in Slots, b \in Slots, dst \in Slots :
          TAdd(util, a, b, dst)
    \/ \E util \in UtilSets, src \in Slots, dst \in Slots,
          scalar \in Scalars : TScale(util, src, dst, scalar)
    \/ \E slot \in Slots : TWrite(slot, 0, Num(7))

SpecTensor == InitTensor /\ [][NextTensor]_vars

\* the last operation was util's op and returned a tensor
Returned(op) == last.op = op /\ ~last.threw

\* C13: for each of the three reshape / view implementations, a reshape
\* that succeeds returns a tensor over the same typed array as its argument
\* and leaves the argument, its shape included, as it was; so an element
\* written through either tensor is read through the other.
C13_ReshapeIsView ==
    /\ Returned("reshape") =>
          /\ tens[last.dst].buf = last.x.buf
          /\ tens[last.dst].data = last.x.data
          /\ tens[last.src] = last.x
    /\ last.op = "write" =>
          \A s \in Slots :
              (Held(s) /\ tens[s].buf = tens[last.src].buf) =>
                  /\ tens[s].data = tens[last.src].data
                  /\ At(tens[s].data, last.n) # At(last.x.data, last.n)

\* C13 witness: element 0 written through a [3, 2] view of a [2, 3] tensor
\* is read through the [2, 3] tensor
C13_Witness ==
    /\ last.op = "write" /\ last.src = 2
    /\ tens[1].buf = tens[2].buf
    /\ tens[1].shape = <<2, 3>> /\ tens[2].shape = <<3, 2>>
    /\ At(last.x.data, 0) = Num(0)
    /\ At(tens[1].data, 0) = Num(7)

\* C14 as stated, for StreamingTransformer.forward: the tensor it returns
\* has storage distinct from its input tensor, for every configuration
\* (zero layers and kind none included).
C14_NoAliasing ==
    (last.op = "forward" /\ ~last.threw) => last.out.buf # last.x.buf

\* the part of C14 that holds for StreamingTransformer.forward: the result
\* is over a new typed array whenever the shell has a layer or adds the
\* sinusoidal embedding
C14_NewStorageWhenComputed ==
    (last.op = "forward" /\ ~last.threw
       /\ (shell.layers > 0 \/ Sinusoidal)) => last.out.buf # last.x.buf

\* C15 as stated: reshape / view fails if more than one entry of the new
\* shape is -1 or if the resulting element count differs from the buffer
\* length; otherwise the entries other than -1 are kept and the returned
\* shape consists of positive integers whose product is the buffer length;
\* on failure the input tensor is unchanged.
C15_ReshapeValidation ==
    last.op = "reshape" =>
        /\ Cardinality(InferDims(last.args)) > 1 => last.threw
        /\ (InferDims(last.args) = {}
              /\ Prod(last.args) # Len(last.x.data)) => last.threw
        /\ ~last.threw =>
              /\ Len(last.out.shape) = Len(last.args)
              /\ last.out.frac = {}
              /\ \A i \in 1..Len(last.args) :
                    /\ last.out.shape[i] > 0
                    /\ last.args[i] # -1 => last.out.shape[i] = last.args[i]
              /\ Prod(last.out.shape) = Len(last.x.data)
        /\ last.threw => tens[last.src] = last.x

\* the part of C15 that holds for the legacy view: two entries -1 and a
\* wrong element count fail, a failure leaves the input unchanged, and an
\* entry -1 that divides evenly is replaced by the quotient
C15_ViewInfersWholeDimensions ==
    (last.op = "reshape" /\ last.how = "TensorUtils") =>
        /\ Cardinality(InferDims(last.args)) > 1 => last.threw
        /\ (InferDims(last.args) = {}
              /\ Prod(last.args) # Len(last.x.data)) => last.threw
        /\ (~last.threw /\ last.out.frac = {}) =>
              Prod(last.out.shape) = Len(last.x.data)
        /\ last.threw => tens[last.src] = last.x

\* view of a 6-element tensor into [4, -1] returns shape [4, 1.5]
C15_FractionalDimension ==
    ~(/\ Returned("reshape") /\ last.how = "TensorUtils"
      /\ Len(last.x.data) = 6 /\ last.args = <<4, -1>>
      /\ last.out.shape = <<4, 1>> /\ last.out.frac = {2})

\* buffer.length == product(shape) with every shape entry a positive integer
WellFormed(t) ==
    /\ t.frac = {}
    /\ \A i \in 1..Len(t.shape) : t.shape[i] > 0
    /\ Len(t.data) = Prod(t.shape)

\* the last operation was given well-formed tensors and arguments in the
\* domain of the operation: positive dimensions (or the sentinel -1 for
\* view), a non-empty ascending range
OnWellFormedInputs ==
    /\ last.src # 0 => WellFormed(last.x)
    /\ last.op = "add" => WellFormed(last.y)
    /\ last.op = "zeros" => \A i \in 1..Len(last.args) : last.args[i] > 0
    /\ last.op = "arange" => last.args[3] > 0 /\ last.args[2] > last.args[1]
    /\ last.op = "reshape" =>
          \A i \in 1..Len(last.args) :
              \/ last.args[i] > 0
              \/ last.args[i] = -1 /\ last.how = "TensorUtils"

TensorOps == {"zeros", "arange", "reshape", "transpose", "add", "scale"}

\* C16 as stated: every tensor returned by zeros, arange, reshape / view,
\* transpose, add or scale of the three utility sets is well-formed
\* whenever the operation returns without error on well-formed inputs.
C16_WellFormedness ==
    (last.op \in TensorOps /\ ~last.threw /\ OnWellFormedInputs) =>
        WellFormed(last.out)

\* the part of C16 that holds: every operation but a view whose inferred
\* entry does not divide evenly returns a well-formed tensor
C16_WellFormedButInexactView ==
    (last.op \in TensorOps /\ ~last.threw /\ OnWellFormedInputs
       /\ ~(last.op = "reshape" /\ last.out.frac # {})) =>
        WellFormed(last.out)

\* element [i, j, k] (0-based) of a rank-3 tensor in row-major order
Elem3(t, i, j, k) ==
    At(t.data, (i * At(t.shape, 1) + j) * At(t.shape, 2) + k)

\* u is t with its axes 1 and 2 exchanged
IsTransposeOf(u, t) ==
    /\ Len(t.shape) = 3 /\ Len(u.shape) = 3
    /\ u.shape = <<At(t.shape, 0), At(t.shape, 2), At(t.shape, 1)>>
    /\ Len(u.data) = Len(t.data)
    /\ \A b \in 0..(At(t.shape, 0) - 1), i \in 0..(At(t.shape, 1) - 1),
          c \in 0..(At(t.shape, 2) - 1) :
          Elem3(u, b, c, i) = Elem3(t, b, i, c)

\* C17: for a rank-3 tensor t, transpose(t, 1, 2) has shape [d0, d2, d1]
\* with element [b, c, t] equal to t's element [b, t, c], and transposing
\* that result again gives the shape and the elements of t.
C17_TransposeRoundTrip ==
    (Returned("transpose") /\ last.args = <<1, 2>>) =>
        /\ IsTransposeOf(last.out, last.x)
        /\ (last.src = 2 /\ Held(1) /\ IsTransposeOf(tens[2], tens[1])) =>
              /\ tens[3].shape = tens[1].shape
              /\ tens[3].data = tens[1].data

\* C17 witness: the [2, 2, 3] tensor of slot 1 transposed into slot 2 and
\* that transposed into slot 3, each in a typed array of its own
C17_Witness ==
    /\ Returned("transpose") /\ last.args = <<1, 2>> /\ last.src = 2
    /\ tens[1].shape = <<2, 2, 3>> /\ tens[2].shape = <<2, 3, 2>>
    /\ tens[2].data # tens[1].data
    /\ tens[3].shape = <<2, 2, 3>>
    /\ tens[1].buf # tens[2].buf /\ tens[2].buf # tens[3].buf
    /\ tens[1].buf # tens[3].buf

\* C18 as stated: transpose fails for every tensor whose rank is not 3 and
\* for every axis pair other than (1, 2); it returns a tensor only for
\* rank 3 with the pair (1, 2).
C18_UnsupportedTranspose ==
    last.op = "transpose" =>
        (~last.threw <=> (Len(last.x.shape) = 3 /\ last.args = <<1, 2>>))

\* the part of C18 that holds: transpose fails for every rank other than 3
\* and for every axis pair other than (1, 2) and (2, 1)
C18_FailsOutsideBothOrders ==
    last.op = "transpose" =>
        (~last.threw <=>
            (Len(last.x.shape) = 3 /\ last.args \in {<<1, 2>>, <<2, 1>>}))

\* transpose(t, 2, 1) of a [2, 2, 3] tensor returns a tensor of shape
\* [2, 2, 3] whose elements are permuted
C18_ReversedPairReturns ==
    ~(/\ Returned("transpose") /\ last.args = <<2, 1>>
      /\ last.x.shape = <<2, 2, 3>>
      /\ last.out.shape = <<2, 2, 3>>
      /\ last.out.data # last.x.data)

\* the elementwise sums a[i] + b[i] of two tensors of equal length
SumOf(a, b) == [i \in 1..Len(a.data) |-> AddVal(a.data[i], b.data[i])]

\* C19 as stated: in every utility set add(a, b) fails unless a and b have
\* identical shapes; when it succeeds the result has that shape and element
\* i equals a[i] + b[i].
C19_AddShapeCheck ==
    last.op = "add" =>
        /\ last.threw <=> (last.x.shape # last.y.shape)
        /\ ~last.threw =>
              /\ last.out.shape = last.x.shape
              /\ last.out.data = SumOf(last.x, last.y)

\* the part of C19 that holds: the web add fails exactly on differing
\* shapes, the legacy and server add exactly on differing element counts;
\* the result has the shape of a and element i is a[i] + b[i] as stored in
\* a Float32Array
C19_AddChecksLengthOnly ==
    last.op = "add" =>
        /\ last.threw <=>
              IF last.how = "WebTensorUtils"
                  THEN last.x.shape # last.y.shape
                  ELSE Len(last.x.data) # Len(last.y.data)
        /\ ~last.threw =>
              /\ last.out.shape = last.x.shape
              /\ last.out.data =
                    [i \in 1..Len(last.x.data) |->
                        Store("Float32Array", SumOf(last.x, last.y)[i])]

\* the legacy add of a [2, 3] tensor and a [6] tensor returns a [2, 3]
\* tensor
C19_MismatchedShapesAdded ==
    ~(/\ Returned("add") /\ last.how = "TensorUtils"
      /\ last.x.shape = <<2, 3>> /\ last.y.shape = <<6>>
      /\ last.out.shape = <<2, 3>>)

\* C20 as stated: for every tensor t of any element type, scale(t, 1)
\* equals t (same shape, element-type tag, device and element values) and
\* scale(t, 0) equals zeros(t.shape); scale never fails.
C20_ScaleIdentities ==
    last.op = "scale" =>
        /\ ~last.threw
        /\ last.n = 1 =>
              /\ last.out.shape = last.x.shape
              /\ last.out.dtype = last.x.dtype
              /\ last.out.device = last.x.device
              /\ last.out.data = last.x.data
        /\ last.n = 0 =>
              /\ last.out.shape = last.x.shape
              /\ last.out.data = ZeroData(Len(last.x.data))

\* the part of C20 that holds: scale never fails and keeps shape and
\* device; scale(t, 0) has the shape of t and zeros for elements; on
\* float32 tensors scale(t, 1) has the tag and the element values of t
C20_ScaleIdentitiesFloat32 ==
    last.op = "scale" =>
        /\ ~last.threw
        /\ last.out.shape = last.x.shape
        /\ last.out.device = last.x.device
        /\ last.n = 0 => last.out.data = ZeroData(Len(last.x.data))
        /\ (last.n = 1 /\ last.x.dtype = "float32"
                /\ last.x.arr = "Float32Array") =>
              /\ last.out.dtype = "float32"
              /\ last.out.data = last.x.data

\* the web scale(t, 1) of a float64 tensor returns a tensor tagged
\* "float32" over a Float32Array with rounded elements
C20_Float64ScaledToFloat32 ==
    ~(/\ Returned("scale") /\ last.how = "WebTensorUtils" /\ last.n = 1
      /\ last.x.dtype = "float64"
      /\ last.out.dtype = "float32"
      /\ last.out.arr = "Float32Array"
      /\ last.out.data # last.x.data)

\* the server scale(t, 1) of an int32 tensor holding 16777217 keeps the tag
\* "int32" and returns another element value
C20_Int32ScaledRounds ==
    ~(/\ Returned("scale") /\ last.how = "ServerTensorUtils" /\ last.n = 1
      /\ last.x.dtype = "int32"
      /\ last.out.dtype = "int32"
      /\ last.out.data # last.x.data)

\* C21 as stated: zeros(shape, ...) fails whenever any dimension of shape
\* is <= 0, and otherwise returns a tensor of that shape with product(shape)
\* elements all equal to zero and a buffer of the requested element type.
C21_ZerosValidation ==
    last.op = "zeros" =>
        /\ last.threw <=> (\E i \in 1..Len(last.args) : last.args[i] <= 0)
        /\ ~last.threw =>
              /\ last.out.shape = last.args
              /\ last.out.data = ZeroData(Prod(last.args))
              /\ last.out.arr =
                    ArrayOf(IF last.kindArg = "undefined" THEN "float32"
                            ELSE last.kindArg)

\* the part of C21 that holds: zeros fails exactly when the product of the
\* dimensions is negative; otherwise the tensor has the given shape,
\* product(shape) zeros and a buffer of the requested element type
C21_ZerosFailsOnNegativeSize ==
    last.op = "zeros" =>
        /\ last.threw <=> Prod(last.args) < 0
        /\ ~last.threw =>
              /\ last.out.shape = last.args
              /\ last.out.data = ZeroData(Prod(last.args))
              /\ last.out.arr =
                    ArrayOf(IF last.kindArg = "undefined" THEN "float32"
                            ELSE last.kindArg)

\* zeros([2, 0]) returns an empty tensor of shape [2, 0]
C21_ZeroDimensionReturns ==
    ~(/\ Returned("zeros") /\ last.args = <<2, 0>>
      /\ last.out.shape = <<2, 0>> /\ last.out.data = <<>>)

\* zeros([-1, -2]) returns a tensor of shape [-1, -2] with two elements
C21_NegativeDimensionsReturn ==
    ~(/\ Returned("zeros") /\ last.args = <<-1, -2>>
      /\ last.out.shape = <<-1, -2>> /\ Len(last.out.data) = 2)

\* the same forward call in a run whose Math.random() calls came out as
\* seed: identical options, input tensor and streaming state
OtherRun(seed) ==
    ProjectedTransformer_forward(ProjectedTransformer(proj.options, seed),
                                 shell, last.pre, last.x)

\* the offsets the run leaves equal the offsets this run left
SameOffsetsAs(r) == last.id # 0 => r.state = states[last.id]

\* whether the constructor built a Linear for the input or for an output
HasLinear ==
    \/ proj.inputProj.class = "Linear"
    \/ \E i \in 1..Len(proj.outputProjs) :
          proj.outputProjs[i].class = "Linear"

\* C22 as stated: every forward call is deterministic: two runs given
\* identical configuration, identical input tensor and identical
\* streaming-state offsets/execMask return identical outputs and leave
\* identical offsets.
C22_Determinism ==
    last.op = "projForward" =>
        \A seed \in RandomSeeds :
            /\ OtherRun(seed).threw = last.threw
            /\ OtherRun(seed).outs = last.outs
            /\ SameOffsetsAs(OtherRun(seed))

\* the part of C22 that holds: whether the call fails, and the offsets it
\* leaves, are the same in every run; the outputs are the same when the
\* constructor built no Linear
C22_DeterministicWithoutLinear ==
    last.op = "projForward" =>
        \A seed \in RandomSeeds :
            /\ OtherRun(seed).threw = last.threw
            /\ SameOffsetsAs(OtherRun(seed))
            /\ ~HasLinear => OtherRun(seed).outs = last.outs

\* 6 -> 4 -> [4, 8] on an input of shape [2, 3, 6]: another run returns
\* other values in the output of width 8
C22_RandomWeightsInOutput ==
    ~(/\ Returned("projForward")
      /\ proj.options.outputDimensions = <<4, 8>>
      /\ last.x.shape = <<2, 3, 6>>
      /\ \E seed \in RandomSeeds :
            OtherRun(seed).outs[2].data # last.outs[2].data)

\* the last step completed an initialize() of a WebTransformer that was
\* not yet initialized and had device "gpu" configured
GpuInitializeCompleted ==
    /\ xf.impl = "WebTransformer"
    /\ last.preXf.device = "gpu"
    /\ ~last.preXf.initialized
    /\ \/ last.op = "initializeResume"
       \/ last.op = "initialize" /\ ~initialize_awaits(last.preXf)

\* C23 as stated: after WebTransformer.initialize() completes with device
\* "gpu" requested, the configured device is "gpu" only if a WebGPU adapter
\* was actually obtained; in every other case (WebGPU unsupported, no
\* adapter, adapter request throws) the device has fallen back to "cpu",
\* initialize() still succeeds, and streaming states created afterwards
\* carry the device actually in use.
C23_GpuFallback ==
    /\ GpuInitializeCompleted =>
          /\ xf.initialized
          /\ xf.device \in {"gpu", "cpu"}
          /\ xf.device = "gpu" => xf.adapter
    /\ (last.op = "xfCreateState" /\ xf.impl = "WebTransformer"
            /\ xf.initialized) =>
          /\ states[1].device \in {"gpu", "cpu"}
          /\ states[1].device = "gpu" => xf.adapter

\* the part of C23 that holds: initialize() always completes initialized;
\* in a browser with navigator.gpu the device is "gpu" afterwards only if
\* an adapter was obtained, and "cpu" when there was none or the request
\* threw; without navigator.gpu the configured device is left as it was; a
\* streaming state carries the configured device ("cpu" when there is none)
C23_FallbackWhereGpuExists ==
    /\ GpuInitializeCompleted =>
          /\ xf.initialized
          /\ xf.device = IF ~xf.navGpu THEN "gpu"
                         ELSE IF last.kindArg = "adapter" THEN "gpu"
                         ELSE "cpu"
          /\ (xf.navGpu /\ xf.device = "gpu") => xf.adapter
    /\ (last.op = "xfCreateState" /\ xf.impl = "WebTransformer") =>
          states[1].device = OrDefaultStr(xf.device, "cpu")

\* in a browser without navigator.gpu, initialize() of a transformer
\* configured with "gpu" completes with the device still "gpu", and a
\* streaming state created afterwards carries "gpu"
C23_NoFallbackWithoutWebGpu ==
    ~(/\ last.op = "xfCreateState" /\ xf.impl = "WebTransformer"
      /\ xf.initialized /\ ~xf.navGpu /\ ~xf.adapter
      /\ xf.device = "gpu" /\ states[1].device = "gpu")

---------------------------------------------------------------------------
(* The server specification: connections, messages, resumed handlers,     *)
(* socket events, the cleanup timer and stop(). Time is left out: the     *)
(* cleanup timer may find any registered client inactive.                 *)

InitServer ==
    /\ shell = NoShell
    /\ states = [id \in AllStateIds |-> NoState]
    /\ last = NoCall
    /\ fed = [id \in AllStateIds |-> NoFed]
    /\ proj = NoProj
    /\ xf = NoXf
    /\ tens = NoTens
    /\ srv = NoSrv

\* a client connects
SrvConnect(c) ==
    /\ ~srv.stopped
    /\ srv.clients[c].socket = "none"
    /\ srv' = connection(srv, c)
    /\ last' = [NoCall EXCEPT !.op = "connection", !.id = c]
    /\ UNCHANGED <<shell, states, fed, proj, xf, tens>>

\* a message of a client arrives (last.n: the transformers it created)
SrvMessage(c, type) ==
    /\ srv.clients[c].socket = "open"
    /\ srv.clients[c].received < MaxMessages
    /\ srv' = handleClientMessage(srv, c, type)
    /\ last' = [NoCall EXCEPT !.op = "message", !.id = c, !.how = type,
                              !.n = Len(srv'.trans) - Len(srv.trans)]
    /\ UNCHANGED <<shell, states, fed, proj, xf, tens>>

\* the timer of an initialize() fires and its handler runs to the end
SrvResume(h) ==
    /\ h \in srv.pending
    /\ srv' = handler_resume(srv, h)
    /\ last' = [NoCall EXCEPT !.op = "resume", !.id = h.c, !.how = h.type,
                              !.n = h.t]
    /\ UNCHANGED <<shell, states, fed, proj, xf, tens>>

\* the socket of a client closes
SrvClose(c) ==
    /\ srv.clients[c].socket \in {"open", "closing"}
    /\ srv' = onClose(srv, c)
    /\ last' = [NoCall EXCEPT !.op = "close", !.id = c]
    /\ UNCHANGED <<shell, states, fed, proj, xf, tens>>

\* the socket of a client reports an error
SrvError(c) ==
    /\ srv.clients[c].socket = "open"
    /\ srv' = onError(srv, c)
    /\ last' = [NoCall EXCEPT !.op = "error", !.id = c]
    /\ UNCHANGED <<shell, states, fed, proj, xf, tens>>

\* the cleanup timer finds a client inactive
SrvCleanup(c) ==
    /\ srv.clients[c].inMap
    /\ srv' = cleanup(srv, c)
    /\ last' = [NoCall EXCEPT !.op = "cleanup", !.id = c]
    /\ UNCHANGED <<shell, states, fed, proj, xf, tens>>

\* server.stop()
SrvStop ==
    /\ ~srv.stopped
    /\ srv' = stop(srv)
    /\ last' = [NoCall EXCEPT !.op = "stop"]
    /\ UNCHANGED <<shell, states, fed, proj, xf, tens>>

NextServer ==
    \/ \E c \in ClientIds : SrvConnect(c)
    \/ \E c \in ClientIds, type \in RequestTypes : SrvMessage(c, type)
    \/ \E h \in srv.pending : SrvResume(h)
    \/ \E c \in ClientIds : SrvClose(c)
    \/ \E c \in ClientIds : SrvError(c)
    \/ \E c \in ClientIds : SrvCleanup(c)
    \/ SrvStop

SpecServer == InitServer /\ [][NextServer]_vars

\* C24: for every connection the server registers the client and sends the
\* METADATA server-info message upon connection, so that it precedes every
\* TEXT or AUDIO response sent to that client, under any interleaving of
\* incoming messages and connections.
C24_MetadataFirst ==
    /\ \A c \in ClientIds :
          /\ srv.sent[c] # <<>> => srv.sent[c][1] = "METADATA"
          /\ srv.clients[c].socket # "none" => srv.sent[c] # <<>>
    /\ last.op = "connection" =>
          /\ srv.clients[last.id].inMap
          /\ srv.sent[last.id] = <<"METADATA">>

\* C24 witness: both clients have connected and one of them has had an
\* AUDIO message answered by TEXT and AUDIO after its METADATA
C24_Witness ==
    /\ \A c \in ClientIds : srv.clients[c].socket # "none"
    /\ \E c \in ClientIds :
          /\ Len(srv.sent[c]) >= 3
          /\ srv.sent[c][1] = "METADATA"
          /\ srv.sent[c][2] = "TEXT"
          /\ srv.sent[c][3] = "AUDIO"

---------------------------------------------------------------------------
(* Further properties of the shell and its streaming state, under Spec.   *)

\* the last operation was a forward with a state attached whose batch size
\* is below the batch size of the input
ForwardBeyondState ==
    /\ ForwardWithState
    /\ At(last.x.shape, 0) > last.pre.batchSize

\* whether forward advances row i (1-based) of a state
Advances(st, i) ==
    ~st.execMask.present \/ (i <= Len(st.execMask.m) /\ st.execMask.m[i])

\* C25: when the input's batch size B exceeds the attached state's batch
\* size n, forward does not fail; every row b >= n uses the offset of the
\* last state row (index n-1) as its base offset, rows b < n use their own
\* offset, and after the call the state still has exactly n offsets, each
\* advanced per the mask rule.
C25_BatchSizeClamp ==
    ForwardBeyondState =>
        LET n == last.pre.batchSize
            B == At(last.x.shape, 0)
        IN /\ ~last.threw
           /\ shell.positionalEmbedding \in {"sin", "sin_rope"} =>
                 /\ Len(last.positions) = B * LastT
                 /\ \A b \in 0..(B - 1), t \in 0..(LastT - 1) :
                       NumOf(last.positions[b * LastT + t + 1]) =
                          t + Offs(last.pre)[IF b < n THEN b + 1 ELSE n]
           /\ Len(Offs(states[last.id])) = n
           /\ \A i \in 1..n :
                 Offs(states[last.id])[i] =
                    Offs(last.pre)[i]
                       + (IF Advances(last.pre, i) THEN LastT ELSE 0)

\* C25 witness: a sinusoidal forward of time length 1 on a batch of 2 with
\* a state of batch size 1 whose offset is already positive
C25_Witness ==
    /\ ForwardBeyondState /\ ~last.threw
    /\ shell.positionalEmbedding \in {"sin", "sin_rope"}
    /\ last.pre.batchSize = 1
    /\ At(last.x.shape, 0) = 2
    /\ LastT >= 1
    /\ Offs(last.pre)[1] > 0
    /\ NumOf(last.positions[LastT + 1]) = Offs(last.pre)[1]
    /\ Len(Offs(states[last.id])) = 1

\* C26: if StreamingTransformer.forward (or ProjectedTransformer.forward)
\* fails with a shape error (positional-embedding injection, layer or
\* transpose failure), the attached streaming state's offsets are exactly as
\* before the call, so the same chunk can be resubmitted without a position
\* gap.
C26_StateUnchangedOnError ==
    (last.op = "projForward" /\ last.threw /\ last.id # 0) =>
        /\ states[last.id].offsets = last.pre.offsets
        /\ states[last.id] = last.pre

\* C26 witness: the injection of the positional embedding fails on an input
\* of rank 4 while the attached state has a positive offset
C26_Witness ==
    /\ last.op = "projForward" /\ last.threw /\ last.id # 0
    /\ ~proj.convLayout
    /\ Len(last.x.shape) = 4
    /\ shell.positionalEmbedding \in {"sin", "sin_rope"}
    /\ Offs(last.pre)[1] > 0
    /\ Offs(states[last.id]) = Offs(last.pre)

\* in channel-first layout the transpose of an input of rank 4 fails and
\* the attached state, already advanced by earlier calls, is as before
C26_TransposeFailure ==
    /\ last.op = "projForward" /\ last.threw /\ last.id # 0
    /\ proj.convLayout
    /\ Len(last.x.shape) = 4
    /\ Offs(last.pre)[1] > 0
    /\ Offs(states[last.id]) = Offs(last.pre)

---------------------------------------------------------------------------
(* One shell and two streaming states: the operations of Spec on fewer    *)
(* configurations and inputs, with both state ids in use.                 *)

\* a sinusoidal shell with one layer and a shell without positional
\* embedding and without layers, both with the default scale and period;
\* sinusoidal shells with positionalScale 0, and with positionalScale 2 and
\* maxPeriod 100
IsolationOptions ==
    {Options("sin", Given(1)), Options("none", Given(0)),
     [Options("sin", Given(1)) EXCEPT !.positionalScale = Given(0)],
     [Options("sin_rope", Given(0)) EXCEPT !.positionalScale = Given(2),
                                           !.maxPeriod = Given(100)]}

IsolationMasks == {NoMask, Mask(<<TRUE, FALSE>>), Mask(<<FALSE>>)}

IsolationInputs ==
    {InputTensor(<<2, 1, 2>>, <<"cpu", "float32">>),
     InputTensor(<<1, 2, 3>>, <<"gpu", "float64">>)}

NextIsolation ==
    \/ \E options \in IsolationOptions : Construct(options)
    \/ \E id \in AllStateIds, n \in BatchSizes : CreateState(id, n)
    \/ \E id \in AllStateIds \cup {0} : Attach(id)
    \/ \E id \in AllStateIds, mask \in IsolationMasks : SetExecMask(id, mask)
    \/ \E x \in IsolationInputs : Forward(x)

SpecIsolation == Init /\ [][NextIsolation]_vars

\* C27: a forward call changes only the offsets of the streaming state
\* attached to the shell at the time of the call; every other streaming
\* state (including one previously attached to the same shell) and the
\* state's batchSize and execMask are unchanged, and a forward call with no
\* state attached mutates no streaming state at all.
C27_StateIsolation ==
    [][last'.op = "forward" =>
          LET id == shell.streamingState
          IN /\ last'.id = id
             /\ \A j \in AllStateIds \ {id} : states'[j] = states[j]
             /\ id # 0 =>
                   states'[id] =
                      [states[id] EXCEPT
                          !.offsets.data = states'[id].offsets.data]
             /\ id = 0 => states' = states]_vars

\* C27 witness: a forward has advanced state 2 while state 1, attached and
\* advanced earlier and carrying an execution mask, is not attached
C27_Witness ==
    /\ last.op = "forward" /\ ~last.threw /\ last.id = 2
    /\ shell.streamingState = 2
    /\ states[1] # NoState
    /\ states[1].execMask.present
    /\ states[2].execMask.present
    /\ Offs(states[1])[1] > 0
    /\ Offs(states[2])[1] > Offs(last.pre)[1]
    /\ Offs(states[2])[1] # Offs(states[1])[1]

\* the last forward's input plus s times the embedding of the positions it
\* used, generated with period p
InputPlusScaled(s, p) ==
    LET E == createSinEmbedding(
                 Tensor(last.positions, <<At(last.x.shape, 0), LastT>>,
                        "cpu", "float32", 0),
                 At(last.x.shape, 2), p, 0)
    IN [i \in 1..Len(last.x.data) |->
            AddVal(last.x.data[i], MulVal(E.data[i], s))]

\* the last operation was a forward of a sinusoidal shell constructed with
\* a positionalScale
ForwardWithScale ==
    /\ last.op = "forward" /\ ~last.threw /\ Sinusoidal
    /\ shell.given.positionalScale.def

\* the period the shell was configured with (the default when omitted)
GivenPeriod ==
    IF shell.given.maxPeriod.def THEN shell.given.maxPeriod.v
    ELSE DefaultMaxPeriod

\* C28 as stated: for every configured positionalScale s and maxPeriod p,
\* including s = 0, the shell adds exactly s times the embedding generated
\* with period p to x; in particular with s = 0 and a sinusoidal kind the
\* output of an identity layer stack equals the input.
C28_ConfiguredScale ==
    ForwardWithScale =>
        /\ last.out.data =
              InputPlusScaled(shell.given.positionalScale.v, GivenPeriod)
        /\ shell.given.positionalScale.v = 0 => last.out.data = last.x.data

\* the part of C28 that holds: a configured scale other than 0 is the
\* factor of the embedding; a configured scale of 0 is replaced by 1
C28_ZeroScaleBecomesOne ==
    ForwardWithScale =>
        last.out.data =
           InputPlusScaled(IF shell.given.positionalScale.v = 0 THEN 1
                           ELSE shell.given.positionalScale.v,
                           GivenPeriod)

\* a shell constructed with positionalScale 0 returns an output that
\* differs from its input: the embedding was added with factor 1
C28_ZeroScaleChangesInput ==
    ~(/\ ForwardWithScale
      /\ shell.given.positionalScale.v = 0
      /\ shell.positionalScale = 1
      /\ last.out.data # last.x.data
      /\ last.out.data = InputPlusScaled(1, DefaultMaxPeriod))

\* a shell constructed with positionalScale 2 and maxPeriod 100 adds twice
\* the embedding of period 100
C28_ScaleTwoHonoured ==
    /\ ForwardWithScale
    /\ shell.given.positionalScale.v = 2
    /\ shell.given.maxPeriod = Given(100)
    /\ Offs(last.pre) # <<>> /\ last.id # 0 /\ Offs(last.pre)[1] > 0
    /\ last.out.data = InputPlusScaled(2, 100)
    /\ last.out.data # InputPlusScaled(1, 100)
    /\ last.out.data # InputPlusScaled(2, DefaultMaxPeriod)

---------------------------------------------------------------------------
(* Properties of the server's transformers, under SpecServer. *)

\* the transformers created for client c
TransformersOf(c) == {t \in 1..Len(srv.trans) : srv.trans[t].owner = c}

\* C29 as stated: every NodeTransformer the server creates for a client is
\* disposed by the time that client is no longer in the clients map, on
\* every removal path (socket close, socket error, inactivity cleanup,
\* server stop) and under every interleaving of these events with a message
\* handler that is still awaiting transformer creation; no initialized
\* transformer is left unreachable.
C29_TransformerDisposal ==
    \A t \in 1..Len(srv.trans) :
        srv.trans[t].initialized =>
            /\ srv.clients[srv.trans[t].owner].inMap
            /\ srv.clients[srv.trans[t].owner].transformer = t

\* the part of C29 that holds: the close handler, the cleanup timer and
\* stop() dispose the transformer the client holds at that moment
C29_DisposedOnCloseCleanupStop ==
    \A c \in ClientIds :
        (/\ last.op \in {"close", "cleanup", "stop"}
         /\ last.op = "stop" \/ last.id = c
         /\ srv.clients[c].removedBy = last.op
         /\ srv.clients[c].transformer # 0) =>
            /\ srv.trans[srv.clients[c].transformer].disposed
            /\ ~srv.trans[srv.clients[c].transformer].initialized

\* after a socket error the client is out of the map and its transformer,
\* never disposed, is still initialized when the socket has closed
C29_ErrorLeavesTransformer ==
    ~(\E c \in ClientIds :
        /\ srv.clients[c].removedBy = "error"
        /\ srv.clients[c].socket = "closed"
        /\ srv.clients[c].transformer # 0
        /\ srv.trans[srv.clients[c].transformer].initialized
        /\ ~srv.trans[srv.clients[c].transformer].disposed)

\* a handler that was awaiting transformer creation when the socket closed
\* leaves an initialized transformer on a client that is out of the map
C29_LateHandlerLeavesTransformer ==
    ~(\E c \in ClientIds :
        /\ last.op = "resume" /\ last.id = c
        /\ srv.clients[c].removedBy = "close"
        /\ TransformersOf(c) = {srv.clients[c].transformer}
        /\ srv.trans[srv.clients[c].transformer].initialized)

\* C30 as stated: for every client connection at most one NodeTransformer
\* is ever created and initialized, even when several TEXT/AUDIO messages
\* from that client are handled concurrently.
C30_OneTransformerPerClient ==
    \A c \in ClientIds : Cardinality(TransformersOf(c)) <= 1

\* the part of C30 that holds: a message creates a transformer only while
\* client.transformer is still undefined, so none is created once a handler
\* of that client has resumed
C30_CreatedOnlyWhileUndefined ==
    last.op = "message" =>
        /\ last.n \in {0, 1}
        /\ last.n = 1 =>
              /\ srv.clients[last.id].inMap
              /\ srv.clients[last.id].transformer = 0
        /\ srv.clients[last.id].transformer # 0 => last.n = 0

\* two messages of one client handled concurrently: both transformers are
\* initialized, the client holds the second and nothing refers to the first
C30_TwoTransformersInitialized ==
    ~(\E c \in ClientIds :
        /\ srv.clients[c].inMap
        /\ Cardinality(TransformersOf(c)) = 2
        /\ \A t \in TransformersOf(c) : srv.trans[t].initialized
        /\ srv.pending = {})

=============================================================================
